---------------------------- MODULE Spec2Model ----------------------------
(***************************************************************************)
(* Model of rmp-eval's synchronized frame exchange (EthercatNicTest) and   *)
(* of the streaming statistics it feeds (TimerReport, QuantileEstimator,   *)
(* RunningStats).                                                          *)
(*                                                                         *)
(* Two threads work on one EthercatNicTest: a sender that calls Send() in  *)
(* a loop and a receiver that calls Receive() in a loop.  Every statement  *)
(* of the two methods that touches shared state (the mutex, the condition  *)
(* variable, the two iteration counters, the socket) is one step.          *)
(*                                                                         *)
(* Specifications: Spec and LiveSpec are the exchange with timestamps that *)
(* fit the nanosecond range, ClockSpec is the exchange with timestamps     *)
(* anywhere in timespec's range, ReportSpec is a TimerReport taken on its  *)
(* own, PublishSpec a TimerReport whose upload location is read by the     *)
(* reporting thread while AddObservation runs, EstimatorSpec is a          *)
(* QuantileEstimator taken on its own, ConstructSpec is the exchange       *)
(* preceded by its constructor and followed by its destructor and further  *)
(* exchanges, CountSpec is the exchange with its timestamped frames        *)
(* counted, WidthSpec is a TimerReport of any bucket width.                *)
(*                                                                         *)
(* Number representation: TLC's integers are 32 bits wide, so the 64-bit   *)
(* types of the program are modelled at 31 bits (int64_t as                *)
(* -2^30 .. 2^30-1, uint64_t as 0 .. 2^31-1) and int at 16 bits.  A double *)
(* is modelled as the exact rational <<numerator, denominator>>.           *)
(***************************************************************************)
EXTENDS Integers, Sequences, FiniteSets, TLC

(***************************************************************************)
(* Bounds of the model.                                                    *)
(***************************************************************************)
\* Send() and Receive() are each called at most MaxIter times.
MaxIter == 4
\* A TimerReport taken on its own gets at most MaxFed AddObservation calls.
MaxFed == 4
\* With a reader on its upload location a TimerReport gets at most MaxStored
\* AddObservation calls.
MaxStored == 2
\* Where the clocks may step any way, each clock domain emits at most
\* MaxClockDeltas deltas (the running means stay within the model's integers).
MaxClockDeltas == 1
\* A QuantileEstimator taken on its own gets at most MaxObserved observations.
MaxObserved == 7
\* At most MaxInstances exchanges are constructed in the process, one after
\* the other.
MaxInstances == 2

(***************************************************************************)
(* Integer types.                                                          *)
(***************************************************************************)
INT64_MAX == 1073741823
INT64_MIN == -1073741824
UINT64_MAX == 2147483647
INT_MAX == 32767

\* The value of an int64_t expression whose mathematical result is x
\* (two's complement wrap; |x| < 2^31 here).
WrapInt64(x) ==
  IF x > INT64_MAX THEN x - INT64_MAX - INT64_MAX - 2
  ELSE IF x < INT64_MIN THEN x + INT64_MAX + INT64_MAX + 2
  ELSE x

\* a + b in uint64_t (a, b in 0 .. UINT64_MAX), without leaving 0 .. UINT64_MAX.
AddUint64(a, b) ==
  IF a > UINT64_MAX - b THEN a - (UINT64_MAX - b) - 1 ELSE a + b

\* The uint64_t an int64_t x converts to.
ToUint64(x) == IF x < 0 THEN (x + INT64_MAX) + INT64_MAX + 2 ELSE x

\* static_cast<int>(x) of an unsigned x.
StaticCastInt(x) ==
  LET m == x % (2 * (INT_MAX + 1))
  IN  IF m > INT_MAX THEN m - 2 * (INT_MAX + 1) ELSE m

\* a - b in int64_t (a, b in INT64_MIN .. INT64_MAX): the values the expression
\* may have.  Signed overflow is undefined: the usual build wraps, and a
\* compiler that assumes no overflow may leave any other int64_t, taken here
\* from the two ends of the range.
SubtractInt64(a, b) ==
  IF a - b > INT64_MAX \/ a - b < INT64_MIN
  THEN {WrapInt64(a - b), INT64_MIN, INT64_MAX}
  ELSE {a - b}

(***************************************************************************)
(* Doubles, as exact rationals <<n, d>> with d > 0 in lowest terms.        *)
(***************************************************************************)
Abs(x) == IF x < 0 THEN -x ELSE x

RECURSIVE Gcd(_, _)
Gcd(a, b) == IF b = 0 THEN a ELSE Gcd(b, a % b)

Rat(n, d) ==
  LET s == IF d < 0 THEN -1 ELSE 1
      g == Gcd(Abs(n), Abs(d))
  IN  IF n = 0 THEN <<0, 1>> ELSE <<(s * n) \div g, (s * d) \div g>>

ToDouble(i) == <<i, 1>>
RatAdd(a, b) == Rat(a[1] * b[2] + b[1] * a[2], a[2] * b[2])
RatSub(a, b) == Rat(a[1] * b[2] - b[1] * a[2], a[2] * b[2])
RatMul(a, b) == Rat(a[1] * b[1], a[2] * b[2])
RatDiv(a, b) == Rat(a[1] * b[2], a[2] * b[1])
RatLess(a, b) == a[1] * b[2] < b[1] * a[2]
RatLeq(a, b) == a[1] * b[2] <= b[1] * a[2]

(***************************************************************************)
(* QuantileEstimator (P^2 algorithm), quantileestimator.cpp.               *)
(***************************************************************************)
NUM_MARKERS == 5
Markers == 0 .. (NUM_MARKERS - 1)

\* QuantileEstimator::QuantileEstimator(0.50), the member `median` of TimerReport.
QuantileEstimatorInit ==
  [ numObservations |-> 0,
    markerHeights |-> [i \in Markers |-> ToDouble(0)],
    markerPositions |-> [i \in Markers |-> i],
    desiredMarkerPositions |-> [i \in Markers |-> ToDouble(i)],
    desiredMarkerPositionIncrements |->
      [i \in Markers |-> CASE i = 0 -> ToDouble(0)
                           [] i = 1 -> Rat(1, 4)
                           [] i = 2 -> Rat(1, 2)
                           [] i = 3 -> Rat(3, 4)
                           [] OTHER -> ToDouble(1)] ]

\* std::sort(markerHeights.begin(), markerHeights.end())
SortHeights(h) ==
  LET rank(j) == Cardinality({i \in Markers :
                    RatLess(h[i], h[j]) \/ (h[i] = h[j] /\ i < j)})
  IN  [k \in Markers |-> h[CHOOSE j \in Markers : rank(j) = k]]

\* AddInitialObservation without the std::sort after the fifth observation.
AddInitialObservationUnsorted(q, observation) ==
  [q EXCEPT !.numObservations = q.numObservations + 1,
            !.markerHeights[q.numObservations] = observation]

\* AddInitialObservation sorting after each of the first five observations.
AddInitialObservationSortsEveryTime(q, observation) ==
  [q EXCEPT !.numObservations = q.numObservations + 1,
            !.markerHeights =
              SortHeights([q.markerHeights EXCEPT ![q.numObservations] = observation])]

AddInitialObservation(q, observation) ==
  LET stored == [q.markerHeights EXCEPT ![q.numObservations] = observation]
      n == q.numObservations + 1
  IN  [q EXCEPT !.numObservations = n,
                !.markerHeights = IF n = NUM_MARKERS THEN SortHeights(stored)
                                  ELSE stored]

\* AdjustMarkerPositions incrementing only the marker next to the bound
\* instead of every marker above it.
AdjustMarkerPositionsNextOnly(q, observation) ==
  LET h == q.markerHeights
      increment_bound ==
        IF RatLess(observation, h[1]) THEN 0
        ELSE IF RatLess(observation, h[2]) THEN 1
        ELSE IF RatLess(observation, h[3]) THEN 2
        ELSE 3
      heights ==
        IF RatLess(observation, h[0]) THEN [h EXCEPT ![0] = observation]
        ELSE IF RatLeq(observation, h[4]) THEN h
        ELSE [h EXCEPT ![4] = observation]
  IN  [q EXCEPT
        !.markerHeights = heights,
        !.markerPositions[increment_bound + 1] = @ + 1,
        !.desiredMarkerPositions =
          [i \in Markers |-> RatAdd(q.desiredMarkerPositions[i],
                                    q.desiredMarkerPositionIncrements[i])]]

\* AdjustMarkerPositions without the replacement of markerHeights[4] by an
\* observation above it.
AdjustMarkerPositionsKeepsMaximum(q, observation) ==
  LET h == q.markerHeights
      increment_bound ==
        IF RatLess(observation, h[1]) THEN 0
        ELSE IF RatLess(observation, h[2]) THEN 1
        ELSE IF RatLess(observation, h[3]) THEN 2
        ELSE 3
  IN  [q EXCEPT
        !.markerHeights =
          IF RatLess(observation, h[0]) THEN [h EXCEPT ![0] = observation] ELSE h,
        !.markerPositions =
          [i \in Markers |-> IF i > increment_bound
                             THEN q.markerPositions[i] + 1
                             ELSE q.markerPositions[i]],
        !.desiredMarkerPositions =
          [i \in Markers |-> RatAdd(q.desiredMarkerPositions[i],
                                    q.desiredMarkerPositionIncrements[i])]]

AdjustMarkerPositions(q, observation) ==
  LET h == q.markerHeights
      increment_bound ==
        IF RatLess(observation, h[0]) THEN 0
        ELSE IF RatLess(observation, h[1]) THEN 0
        ELSE IF RatLess(observation, h[2]) THEN 1
        ELSE IF RatLess(observation, h[3]) THEN 2
        ELSE 3
      heights ==
        IF RatLess(observation, h[0]) THEN [h EXCEPT ![0] = observation]
        ELSE IF RatLeq(observation, h[4]) THEN h
        ELSE [h EXCEPT ![4] = observation]
  IN  [q EXCEPT
        !.markerHeights = heights,
        !.markerPositions =
          [i \in Markers |-> IF i > increment_bound
                             THEN q.markerPositions[i] + 1
                             ELSE q.markerPositions[i]],
        !.desiredMarkerPositions =
          [i \in Markers |-> RatAdd(q.desiredMarkerPositions[i],
                                    q.desiredMarkerPositionIncrements[i])]]

Parabolic(q, index, increment) ==
  LET height == q.markerHeights[index]
      prev_position == ToDouble(q.markerPositions[index - 1])
      next_position == ToDouble(q.markerPositions[index + 1])
      cur_position == ToDouble(q.markerPositions[index])
      inc == ToDouble(increment)
      factor == RatDiv(inc, RatSub(next_position, prev_position))
      addend1 == RatDiv(RatMul(RatAdd(RatSub(cur_position, prev_position), inc),
                               RatSub(q.markerHeights[index + 1], height)),
                        RatSub(next_position, cur_position))
      addend2 == RatDiv(RatMul(RatSub(RatSub(next_position, cur_position), inc),
                               RatSub(height, q.markerHeights[index - 1])),
                        RatSub(cur_position, prev_position))
  IN  RatAdd(height, RatMul(factor, RatAdd(addend1, addend2)))

Linear(q, index, increment) ==
  LET height == q.markerHeights[index]
  IN  RatAdd(height,
        RatDiv(RatMul(ToDouble(increment),
                      RatSub(q.markerHeights[index + increment], height)),
               ToDouble(q.markerPositions[index + increment]
                        - q.markerPositions[index])))

\* The loop body taking the parabolic candidate wherever it lands.
AdjustMarkerHeightParabolicOnly(q, index) ==
  LET marker_position == q.markerPositions[index]
      difference == RatSub(q.desiredMarkerPositions[index], ToDouble(marker_position))
      up == RatLeq(ToDouble(1), difference)
            /\ q.markerPositions[index + 1] - marker_position > 1
      down == RatLeq(difference, ToDouble(-1))
              /\ q.markerPositions[index - 1] - marker_position < -1
      increment == IF RatLess(ToDouble(0), difference) THEN 1 ELSE -1
  IN  IF up \/ down
      THEN [q EXCEPT !.markerHeights[index] = Parabolic(q, index, increment),
                     !.markerPositions[index] = marker_position + increment]
      ELSE q

\* The loop body moving a marker away from its desired position.
AdjustMarkerHeightWrongDirection(q, index) ==
  LET marker_position == q.markerPositions[index]
      difference == RatSub(q.desiredMarkerPositions[index], ToDouble(marker_position))
      up == RatLeq(ToDouble(1), difference)
            /\ q.markerPositions[index + 1] - marker_position > 1
      down == RatLeq(difference, ToDouble(-1))
              /\ q.markerPositions[index - 1] - marker_position < -1
      increment == IF RatLess(ToDouble(0), difference) THEN -1 ELSE 1
      candidate == Parabolic(q, index, increment)
      newHeight ==
        IF RatLess(q.markerHeights[index - 1], candidate)
           /\ RatLess(candidate, q.markerHeights[index + 1])
        THEN candidate
        ELSE Linear(q, index, increment)
  IN  IF up \/ down
      THEN [q EXCEPT !.markerHeights[index] = newHeight,
                     !.markerPositions[index] = marker_position + increment]
      ELSE q

\* One iteration of the loop of AdjustMarkerHeights.
AdjustMarkerHeight(q, index) ==
  LET marker_position == q.markerPositions[index]
      difference == RatSub(q.desiredMarkerPositions[index], ToDouble(marker_position))
      up == RatLeq(ToDouble(1), difference)
            /\ q.markerPositions[index + 1] - marker_position > 1
      down == RatLeq(difference, ToDouble(-1))
              /\ q.markerPositions[index - 1] - marker_position < -1
      increment == IF RatLess(ToDouble(0), difference) THEN 1 ELSE -1
      candidate == Parabolic(q, index, increment)
      newHeight ==
        IF RatLess(q.markerHeights[index - 1], candidate)
           /\ RatLess(candidate, q.markerHeights[index + 1])
        THEN candidate
        ELSE Linear(q, index, increment)
  IN  IF up \/ down
      THEN [q EXCEPT !.markerHeights[index] = newHeight,
                     !.markerPositions[index] = marker_position + increment]
      ELSE q

AdjustMarkerHeights(q) ==
  AdjustMarkerHeight(AdjustMarkerHeight(AdjustMarkerHeight(q, 1), 2), 3)

QuantileAddObservation(q, observation) ==
  IF q.numObservations < NUM_MARKERS
  THEN AddInitialObservation(q, observation)
  ELSE LET positioned == AdjustMarkerPositions(q, observation)
       IN  AdjustMarkerHeights(
             [positioned EXCEPT !.numObservations = q.numObservations + 1])

GetQuantile(q) == q.markerHeights[2]

(***************************************************************************)
(* TimerReport and its histogram, reporter.cpp / reporter.h.               *)
(***************************************************************************)
BucketCount == 5

\* std::bit_width(x), x >= 0
RECURSIVE bit_width(_)
bit_width(x) == IF x = 0 THEN 0 ELSE 1 + bit_width(x \div 2)

Min(a, b) == IF a < b THEN a ELSE b

\* Fault variant of GetBucketIndex: buckets of equal width (the index is the
\* number of deviations itself).
GetBucketIndexLinear(element, bucketWidth, bucketCount) ==
  LET deviations == element \div bucketWidth
  IN  Min(deviations, bucketCount - 1)

\* Fault variant of GetBucketIndex: the index is the binary logarithm of the
\* deviations, rounded down, instead of their bit width.
GetBucketIndexLog2(element, bucketWidth, bucketCount) ==
  LET deviations == element \div bucketWidth
      bucketIndex == IF deviations = 0 THEN 0 ELSE bit_width(deviations) - 1
  IN  Min(bucketIndex, bucketCount - 1)

GetBucketIndex(element, bucketWidth, bucketCount) ==
  LET deviations == element \div bucketWidth
      bucketIndex == bit_width(deviations)
  IN  Min(bucketIndex, bucketCount - 1)

\* TimerReport::TimerReport(argTarget, argBucketWidth, argUpload); hasUpload
\* says whether uploadLocation is non-null.
TimerReportInit(argTarget, argBucketWidth, hasUpload) ==
  [ min |-> UINT64_MAX, max |-> 0, sum |-> 0,
    minIndex |-> -1, maxIndex |-> -1,
    observations |-> 0,
    median |-> QuantileEstimatorInit,
    hasUpload |-> hasUpload,
    target |-> argTarget, bucketWidth |-> argBucketWidth,
    buckets |-> [b \in 0 .. (BucketCount - 1) |-> 0] ]

\* A default-constructed ReportData.
ReportDataInit ==
  [ min |-> UINT64_MAX, max |-> 0, sum |-> 0,
    minIndex |-> -1, maxIndex |-> -1,
    observations |-> 0, median |-> ToDouble(0), target |-> 0,
    bucketWidth |-> 0,
    buckets |-> [b \in 0 .. (BucketCount - 1) |-> 0] ]

\* Fault variant of Snapshot: minIndex and maxIndex are not copied.
SnapshotWithoutIndices(r) ==
  [ min |-> r.min, max |-> r.max, sum |-> r.sum,
    minIndex |-> -1, maxIndex |-> -1,
    observations |-> r.observations,
    median |-> GetQuantile(r.median),
    target |-> r.target, bucketWidth |-> r.bucketWidth,
    buckets |-> r.buckets ]

Snapshot(r) ==
  [ min |-> r.min, max |-> r.max, sum |-> r.sum,
    minIndex |-> r.minIndex, maxIndex |-> r.maxIndex,
    observations |-> r.observations,
    median |-> GetQuantile(r.median),
    target |-> r.target, bucketWidth |-> r.bucketWidth,
    buckets |-> r.buckets ]

\* Fault variant of AddObservation: an observation below the target is left
\* out of the histogram.
AddObservationDropsBelowTarget(r, observation, index) ==
  LET difference ==
        WrapInt64(IF observation >= r.target THEN observation - r.target ELSE 0)
      bucket == GetBucketIndex(ToUint64(difference), r.bucketWidth, BucketCount)
      lower == observation < r.min
      higher == observation > r.max
  IN  [r EXCEPT
        !.observations = AddUint64(r.observations, 1),
        !.sum = AddUint64(r.sum, observation),
        !.median = QuantileAddObservation(r.median, ToDouble(observation)),
        !.min = IF lower THEN observation ELSE r.min,
        !.minIndex = IF lower THEN index ELSE r.minIndex,
        !.max = IF higher THEN observation ELSE r.max,
        !.maxIndex = IF higher THEN index ELSE r.maxIndex,
        !.buckets[bucket] = IF observation >= r.target
                            THEN AddUint64(r.buckets[bucket], 1)
                            ELSE r.buckets[bucket]]

\* Fault variant of AddObservation: the maximum is looked at only when the
\* observation is no new minimum (else if).
AddObservationElseIf(r, observation, index) ==
  LET difference ==
        WrapInt64(IF observation >= r.target THEN observation - r.target ELSE 0)
      bucket == GetBucketIndex(ToUint64(difference), r.bucketWidth, BucketCount)
      lower == observation < r.min
      higher == ~lower /\ observation > r.max
  IN  [r EXCEPT
        !.observations = AddUint64(r.observations, 1),
        !.sum = AddUint64(r.sum, observation),
        !.median = QuantileAddObservation(r.median, ToDouble(observation)),
        !.min = IF lower THEN observation ELSE r.min,
        !.minIndex = IF lower THEN index ELSE r.minIndex,
        !.max = IF higher THEN observation ELSE r.max,
        !.maxIndex = IF higher THEN index ELSE r.maxIndex,
        !.buckets[bucket] = AddUint64(r.buckets[bucket], 1)]

\* Fault variant of AddObservation: the sum takes the difference to the target
\* instead of the observation.
AddObservationSumsDifference(r, observation, index) ==
  LET difference ==
        WrapInt64(IF observation >= r.target THEN observation - r.target ELSE 0)
      bucket == GetBucketIndex(ToUint64(difference), r.bucketWidth, BucketCount)
      lower == observation < r.min
      higher == observation > r.max
  IN  [r EXCEPT
        !.observations = AddUint64(r.observations, 1),
        !.sum = AddUint64(r.sum, ToUint64(difference)),
        !.median = QuantileAddObservation(r.median, ToDouble(observation)),
        !.min = IF lower THEN observation ELSE r.min,
        !.minIndex = IF lower THEN index ELSE r.minIndex,
        !.max = IF higher THEN observation ELSE r.max,
        !.maxIndex = IF higher THEN index ELSE r.maxIndex,
        !.buckets[bucket] = AddUint64(r.buckets[bucket], 1)]

\* Fault variant of AddObservation: the difference is the unsigned
\* observation - target whatever their order.
AddObservationUnsignedDifference(r, observation, index) ==
  LET difference ==
        WrapInt64(IF observation >= r.target
                  THEN observation - r.target
                  ELSE ToUint64(observation - r.target))
      bucket == GetBucketIndex(ToUint64(difference), r.bucketWidth, BucketCount)
      lower == observation < r.min
      higher == observation > r.max
  IN  [r EXCEPT
        !.observations = AddUint64(r.observations, 1),
        !.sum = AddUint64(r.sum, observation),
        !.median = QuantileAddObservation(r.median, ToDouble(observation)),
        !.min = IF lower THEN observation ELSE r.min,
        !.minIndex = IF lower THEN index ELSE r.minIndex,
        !.max = IF higher THEN observation ELSE r.max,
        !.maxIndex = IF higher THEN index ELSE r.maxIndex,
        !.buckets[bucket] = AddUint64(r.buckets[bucket], 1)]

\* The members of TimerReport after AddObservation(observation, index).
AddObservation(r, observation, index) ==
  LET difference ==
        WrapInt64(IF observation >= r.target THEN observation - r.target ELSE 0)
      bucket == GetBucketIndex(ToUint64(difference), r.bucketWidth, BucketCount)
      lower == observation < r.min
      higher == observation > r.max
  IN  [r EXCEPT
        !.observations = AddUint64(r.observations, 1),
        !.sum = AddUint64(r.sum, observation),
        !.median = QuantileAddObservation(r.median, ToDouble(observation)),
        !.min = IF lower THEN observation ELSE r.min,
        !.minIndex = IF lower THEN index ELSE r.minIndex,
        !.max = IF higher THEN observation ELSE r.max,
        !.maxIndex = IF higher THEN index ELSE r.maxIndex,
        !.buckets[bucket] = AddUint64(r.buckets[bucket], 1)]

\* What *uploadLocation holds after AddObservation left the members as r.
Publish(r, uploaded) == IF r.hasUpload THEN Snapshot(r) ELSE uploaded

\* a / b in uint64_t.  Division by zero is undefined: the processor raises
\* SIGFPE, or the build goes on with some quotient, taken here from the two
\* ends of the range.
DivideUint64(a, b) ==
  IF b = 0
  THEN {[trap |-> TRUE, quotient |-> 0]}
         \cup {[trap |-> FALSE, quotient |-> q] : q \in {0, UINT64_MAX}}
  ELSE {[trap |-> FALSE, quotient |-> a \div b]}

\* GetBucketIndex for any bucket width: what the call may come to.
GetBucketIndexOutcomes(element, bucketWidth, bucketCount) ==
  { [trap |-> division.trap,
     index |-> Min(bit_width(division.quotient), bucketCount - 1)]
    : division \in DivideUint64(element, bucketWidth) }

\* AddObservation(observation, index) for any bucket width: the members as
\* the call may leave them, and whether it ended in SIGFPE (then with the
\* statements before the bucket update done).
AddObservationOutcomes(r, observation, index) ==
  LET difference ==
        WrapInt64(IF observation >= r.target THEN observation - r.target ELSE 0)
      lower == observation < r.min
      higher == observation > r.max
      counted ==
        [r EXCEPT
          !.observations = AddUint64(r.observations, 1),
          !.sum = AddUint64(r.sum, observation),
          !.median = QuantileAddObservation(r.median, ToDouble(observation)),
          !.min = IF lower THEN observation ELSE r.min,
          !.minIndex = IF lower THEN index ELSE r.minIndex,
          !.max = IF higher THEN observation ELSE r.max,
          !.maxIndex = IF higher THEN index ELSE r.maxIndex]
  IN  { [ trap |-> outcome.trap,
          report |-> IF outcome.trap THEN counted
                     ELSE [counted EXCEPT !.buckets[outcome.index] =
                             AddUint64(counted.buckets[outcome.index], 1)] ]
        : outcome \in GetBucketIndexOutcomes(ToUint64(difference),
                                             r.bucketWidth, BucketCount) }

(***************************************************************************)
(* RunningStats, nictest.h.                                                *)
(***************************************************************************)
RunningStatsInit ==
  [ MinValue |-> INT64_MAX, MaxValue |-> INT64_MIN,
    MinIndex |-> 0, MaxIndex |-> 0, count |-> 0, Mean |-> ToDouble(0) ]

update(s, value, idx) ==
  LET n == s.count + 1
      delta == RatSub(ToDouble(value), s.Mean)
  IN  [ MinValue |-> IF value < s.MinValue THEN value ELSE s.MinValue,
        MinIndex |-> IF value < s.MinValue THEN idx ELSE s.MinIndex,
        MaxValue |-> IF value > s.MaxValue THEN value ELSE s.MaxValue,
        MaxIndex |-> IF value > s.MaxValue THEN idx ELSE s.MaxIndex,
        count |-> n,
        Mean |-> RatAdd(s.Mean, RatDiv(delta, ToDouble(n))) ]

(***************************************************************************)
(* EthercatNicTest, ethercatnictest.cpp / nictest.h.                       *)
(***************************************************************************)
VARIABLES
  sendIteration,     \* EthercatNicTest::sendIteration
  receiveIteration,  \* EthercatNicTest::receiveIteration
  mutexOwner,        \* who holds EthercatNicTest::mutex: "none", "sender", "receiver"
  senderPc,          \* where the sender thread is in Send()
  receiverPc,        \* where the receiver thread is in Receive()
  receiveResult,     \* how the last finished Receive() ended
  framesSent,        \* frames send() has put on the wire
  framesPending,     \* frames queued on the socket, not yet read
  msgControl,        \* the control messages recvmsg() left in `msg`
  recvmsgResult,     \* Receive()'s local `n`: what recvmsg() returned
  prev,              \* EthercatNicTest::prev
  stats,             \* EthercatNicTest::stats
  hardwareReport,    \* EthercatNicTest::hardwareReport
  softwareReport,    \* EthercatNicTest::softwareReport
  uploaded,          \* the ReportData at each report's uploadLocation
  ready,             \* Receive()'s local `ready`: what poll() returned
  notified,          \* the current Receive() has called condition.notify_all()
  entry,             \* the exchange's state as it was when Receive() was entered
  lastSeen,          \* per clock domain, the last timestamp a frame carried
  scenario,          \* per clock domain, how far its timestamps follow Scenario
  timerReport,       \* a TimerReport taken on its own
  published,         \* the ReportData at that TimerReport's uploadLocation
  fed,               \* the AddObservation calls made on it: <<observation, index>>
  snapshot,          \* AddObservation()'s local `snapshot`
  storePending,      \* the members of *uploadLocation still to be assigned from it
  row,               \* the column values TableMaker::PrintRow has read so far
  history,           \* the ReportData after each completed AddObservation call
  estimator,         \* a QuantileEstimator taken on its own
  observed,          \* the observations passed to its AddObservation, in order
  constructorPc,     \* where the constructor of EthercatNicTest is
  failed,            \* the constructor's system calls that returned -1
  rxFilters,         \* the rx_filter of each SIOCSHWTSTAMP request made
  socketDescriptor,  \* EthercatNicTest::socketDescriptor
  openDescriptors,   \* the descriptors of exchanges that the process has open
  constructions,     \* how many times the constructor has been entered
  pollFd,            \* the fd of Receive()'s function-local `static pollfd pollFd`
  timestamped,       \* per clock domain, the frames received with its timestamp
  dropped,           \* per clock domain, the negative deltas met
  divisionByZero     \* what came of a division by zero in that TimerReport's calls

vars == << sendIteration, receiveIteration, mutexOwner, senderPc, receiverPc,
           receiveResult, framesSent, framesPending, msgControl, recvmsgResult,
           prev, stats, hardwareReport, softwareReport, uploaded, ready,
           notified, entry, lastSeen, scenario, timerReport, published, fed,
           snapshot, storePending, row, history, estimator, observed,
           constructorPc, failed, rxFilters, socketDescriptor,
           openDescriptors, constructions, pollFd, timestamped, dropped,
           divisionByZero >>

senderVars == << sendIteration, senderPc, framesSent >>
receiverData == << prev, stats, hardwareReport, softwareReport, uploaded,
                   lastSeen, scenario >>
receiverCall == << receiveResult, msgControl, recvmsgResult, ready, notified, entry >>
countVars == << timestamped, dropped >>
exchangeVars == << sendIteration, receiveIteration, mutexOwner, senderPc,
                  receiverPc, framesPending, receiverData, receiverCall,
                  framesSent, countVars, pollFd >>
constructionVars == << constructorPc, failed, rxFilters, socketDescriptor,
                      openDescriptors, constructions >>
estimatorVars == << estimator, observed >>
componentVars == << timerReport, published, fed, snapshot, storePending, row,
                   history, estimatorVars, divisionByZero >>

\* The constructor arguments the run driver passes: the two reports' target and
\* bucket width (TestParameters::BucketWidth) and whether each has an upload
\* location (TestParameters::SendData / ReceiveData).
HardwareReportArgs == [target |-> 0, bucketWidth |-> 250, hasUpload |-> TRUE]
SoftwareReportArgs == [target |-> 300, bucketWidth |-> 100, hasUpload |-> FALSE]

\* What the static pollFd holds before its initialisation has run.
Uninitialised == -1

\* The descriptors socket() may return.
Descriptors == {3, 4}

PrevStatsInit ==
  [ HardwareNanoseconds |-> 0, SoftwareNanoseconds |-> 0,
    HaveHardware |-> FALSE, HaveSoftware |-> FALSE ]

CadenceStatsInit ==
  [ HardwareDeltaNanoseconds |-> RunningStatsInit,
    SoftwareDeltaNanoseconds |-> RunningStatsInit ]

\* The state Receive() works on, as recorded on entry.
EntryState ==
  [ receiveIteration |-> receiveIteration,
    prev |-> prev, stats |-> stats, hardwareReport |-> hardwareReport,
    softwareReport |-> softwareReport, uploaded |-> uploaded,
    lastSeen |-> lastSeen ]

(***************************************************************************)
(* The kernel's timestamp control message: timespec[3] = [SW, legacy, HW]. *)
(***************************************************************************)
Timespec(sec, nsec) == [tv_sec |-> sec, tv_nsec |-> nsec]
NoTimestamp == Timespec(0, 0)
Cmsg(sw, hw) == [timestamping |-> TRUE, ts |-> <<sw, NoTimestamp, hw>>]

\* The control buffers recvmsg() may return: none, one that is no timestamp
\* message, a software-only, a hardware-only and three full timestamp messages.
ControlChoices ==
  { <<>>,
    << [timestamping |-> FALSE, ts |-> <<Timespec(1, 600), NoTimestamp, Timespec(1, 400)>>] >>,
    << Cmsg(Timespec(1, 100), NoTimestamp) >>,
    << Cmsg(NoTimestamp, Timespec(1, 100)) >>,
    << Cmsg(Timespec(1, 600), Timespec(1, 400)) >>,
    << Cmsg(Timespec(1, 400), Timespec(1, 600)) >>,
    << Cmsg(Timespec(1, 900), Timespec(1, 900)) >> }

\* Control buffers whose timestamps lie anywhere in timespec's range: before
\* the epoch, past the ends of the 64-bit nanosecond range, and in between.
ClockStepTimespecs ==
  { Timespec(-2, 0), Timespec(-1, 0), Timespec(0, 7), Timespec(1, 100),
    Timespec(2, 0) }

ClockStepChoices ==
  { <<>> }
    \cup { << Cmsg(NoTimestamp, ts) >> : ts \in ClockStepTimespecs }
    \cup { << Cmsg(ts, NoTimestamp) >> : ts \in ClockStepTimespecs }

NanoPerSec == 1000000000

to_ns(ts) ==
  LET ns == ts.tv_sec * NanoPerSec + ts.tv_nsec
  IN  IF ns > INT64_MAX THEN INT64_MAX
      ELSE IF ns < INT64_MIN THEN INT64_MIN
      ELSE ns

NonZero(ts) == ts.tv_sec # 0 \/ ts.tv_nsec # 0

\* The cmsg loop taking every timestamp message to carry a hardware
\* timestamp, without looking whether ts[2] is set.
RECURSIVE ParseControlAlwaysHardware(_, _)
ParseControlAlwaysHardware(control, acc) ==
  IF control = <<>> THEN acc
  ELSE LET cmsg == Head(control)
           next ==
             IF cmsg.timestamping
             THEN [ haveSoftware |-> NonZero(cmsg.ts[1]),
                    haveHardware |-> TRUE,
                    softwareNanoseconds |->
                      IF NonZero(cmsg.ts[1]) THEN to_ns(cmsg.ts[1])
                      ELSE acc.softwareNanoseconds,
                    hardwareNanoseconds |-> to_ns(cmsg.ts[3]) ]
             ELSE acc
       IN  ParseControlAlwaysHardware(Tail(control), next)

\* The cmsg loop of Receive(): the locals haveHardware, haveSoftware,
\* hardwareNanoseconds, softwareNanoseconds after the messages of `control`,
\* starting from `acc`.
RECURSIVE ParseControl(_, _)
ParseControl(control, acc) ==
  IF control = <<>> THEN acc
  ELSE LET cmsg == Head(control)
           next ==
             IF cmsg.timestamping
             THEN [ haveSoftware |-> NonZero(cmsg.ts[1]),
                    haveHardware |-> NonZero(cmsg.ts[3]),
                    softwareNanoseconds |->
                      IF NonZero(cmsg.ts[1]) THEN to_ns(cmsg.ts[1])
                      ELSE acc.softwareNanoseconds,
                    hardwareNanoseconds |->
                      IF NonZero(cmsg.ts[3]) THEN to_ns(cmsg.ts[3])
                      ELSE acc.hardwareNanoseconds ]
             ELSE acc
       IN  ParseControl(Tail(control), next)

ParsedTimestamps(control) ==
  ParseControl(control,
    [ haveSoftware |-> FALSE, haveHardware |-> FALSE,
      softwareNanoseconds |-> 0, hardwareNanoseconds |-> 0 ])

\* Fault variant of InterArrival: a zero delta is dropped (delta > 0).
InterArrivalStrict(nanoseconds, havePrev, prevNanoseconds, report, running, upload, iteration) ==
  { LET emit == havePrev /\ delta > 0
        added == AddObservation(report, delta, StaticCastInt(iteration))
    IN  [ report |-> IF emit THEN added ELSE report,
          upload |-> IF emit THEN Publish(added, upload) ELSE upload,
          running |-> IF emit THEN update(running, delta, iteration) ELSE running,
          prevNanoseconds |-> nanoseconds,
          have |-> TRUE ]
    : delta \in SubtractInt64(nanoseconds, prevNanoseconds) }

\* Fault variant of InterArrival: a dropped delta leaves the previous timestamp
\* as it was.
InterArrivalKeepsPrev(nanoseconds, havePrev, prevNanoseconds, report, running, upload, iteration) ==
  { LET emit == havePrev /\ delta >= 0
        added == AddObservation(report, delta, StaticCastInt(iteration))
    IN  [ report |-> IF emit THEN added ELSE report,
          upload |-> IF emit THEN Publish(added, upload) ELSE upload,
          running |-> IF emit THEN update(running, delta, iteration) ELSE running,
          prevNanoseconds |-> IF havePrev /\ ~emit THEN prevNanoseconds ELSE nanoseconds,
          have |-> TRUE ]
    : delta \in SubtractInt64(nanoseconds, prevNanoseconds) }

\* Fault variant of InterArrival: the first timestamp of a domain is taken as
\* a delta from the initial prevNanoseconds.
InterArrivalCountsFirst(nanoseconds, havePrev, prevNanoseconds, report, running, upload, iteration) ==
  { LET emit == delta >= 0
        added == AddObservation(report, delta, StaticCastInt(iteration))
    IN  [ report |-> IF emit THEN added ELSE report,
          upload |-> IF emit THEN Publish(added, upload) ELSE upload,
          running |-> IF emit THEN update(running, delta, iteration) ELSE running,
          prevNanoseconds |-> nanoseconds,
          have |-> TRUE ]
    : delta \in SubtractInt64(nanoseconds, prevNanoseconds) }

\* One clock domain's block of Receive(): given that the frame carried the
\* timestamp `nanoseconds`, the domain's previous timestamp and have-flag, its
\* report, the content of the report's upload location and the domain's
\* running statistics afterwards, one for each value the subtraction may have.
InterArrival(nanoseconds, havePrev, prevNanoseconds, report, running, upload, iteration) ==
  { LET emit == havePrev /\ delta >= 0
        added == AddObservation(report, delta, StaticCastInt(iteration))
    IN  [ report |-> IF emit THEN added ELSE report,
          upload |-> IF emit THEN Publish(added, upload) ELSE upload,
          running |-> IF emit THEN update(running, delta, iteration) ELSE running,
          prevNanoseconds |-> nanoseconds,
          have |-> TRUE ]
    : delta \in SubtractInt64(nanoseconds, prevNanoseconds) }

\* The timestamps T, T+500, T+300, T+800 of the delta tracker's test scenario.
ScenarioStart == to_ns(Timespec(1, 100))
Scenario == << ScenarioStart, ScenarioStart + 500, ScenarioStart + 300,
               ScenarioStart + 800 >>
NotSeen == [seen |-> FALSE, nanoseconds |-> 0]
Seen(nanoseconds) == [seen |-> TRUE, nanoseconds |-> nanoseconds]
OffScenario == Len(Scenario) + 1

\* The scenario monitor after a domain was presented `nanoseconds`.
Follow(progress, nanoseconds) ==
  IF progress < Len(Scenario) /\ Scenario[progress + 1] = nanoseconds
  THEN progress + 1
  ELSE OffScenario

\* The members of EthercatNicTest as their initialisers leave them, no call
\* made yet.
MembersInit ==
  /\ sendIteration = 0
  /\ receiveIteration = 0
  /\ mutexOwner = "none"
  /\ senderPc = "idle"
  /\ receiverPc = "idle"
  /\ receiveResult = "none"
  /\ framesSent = 0
  /\ framesPending = 0
  /\ msgControl = <<>>
  /\ recvmsgResult = "none"
  /\ prev = PrevStatsInit
  /\ stats = CadenceStatsInit
  /\ hardwareReport = TimerReportInit(HardwareReportArgs.target,
                        HardwareReportArgs.bucketWidth, HardwareReportArgs.hasUpload)
  /\ softwareReport = TimerReportInit(SoftwareReportArgs.target,
                        SoftwareReportArgs.bucketWidth, SoftwareReportArgs.hasUpload)
  /\ uploaded = [hardware |-> ReportDataInit, software |-> ReportDataInit]
  /\ ready = "none"
  /\ notified = FALSE
  /\ lastSeen = [hardware |-> NotSeen, software |-> NotSeen]
  /\ scenario = [hardware |-> 0, software |-> 0]
  /\ entry = EntryState
  /\ timestamped = [hardware |-> 0, software |-> 0]
  /\ dropped = [hardware |-> 0, software |-> 0]

\* The constructor has returned and the interface accepted every request.
Constructed ==
  /\ constructorPc = "constructed"
  /\ failed = {}
  /\ rxFilters = << "all" >>
  /\ socketDescriptor = 3
  /\ openDescriptors = {3}
  /\ constructions = 1

\* The first exchange of the process, constructed; Receive() was never called.
ExchangeInit == MembersInit /\ Constructed /\ pollFd = Uninitialised

\* No QuantileEstimator is exercised on its own.
EstimatorIdle ==
  /\ estimator = QuantileEstimatorInit
  /\ observed = <<>>

\* No TimerReport is exercised on its own.
ComponentsIdle ==
  /\ timerReport = TimerReportInit(HardwareReportArgs.target,
                HardwareReportArgs.bucketWidth, HardwareReportArgs.hasUpload)
  /\ published = ReportDataInit
  /\ fed = <<>>
  /\ snapshot = ReportDataInit
  /\ storePending = {}
  /\ row = <<>>
  /\ history = {ReportDataInit}
  /\ EstimatorIdle
  /\ divisionByZero = "none"

Init == ExchangeInit /\ ComponentsIdle

(***************************************************************************)
(* Send(), one action per step of the sender thread.                       *)
(***************************************************************************)
\* Fault variant of ReceiverReady: the sender also proceeds when the counters
\* are equal.
ReceiverReadyOrEqual == receiveIteration >= sendIteration

\* The predicate of condition.wait_for.
ReceiverReady == receiveIteration > sendIteration

\* Send() is entered and the frame is built.
SendBegin ==
  /\ senderPc = "idle"
  /\ sendIteration < MaxIter
  /\ senderPc' = "lock"
  /\ UNCHANGED << componentVars, constructionVars, countVars, pollFd,
                  sendIteration, framesSent, receiveIteration, mutexOwner,
                  receiverPc, framesPending, receiverData, receiverCall >>

\* std::unique_lock lock(mutex)
SendLock ==
  /\ senderPc = "lock"
  /\ mutexOwner = "none"
  /\ mutexOwner' = "sender"
  /\ senderPc' = "check"
  /\ UNCHANGED << componentVars, constructionVars, countVars, pollFd,
                  sendIteration, framesSent, receiveIteration, receiverPc,
                  framesPending, receiverData, receiverCall >>

\* wait_for evaluates the predicate with the mutex held: it returns true, or
\* releases the mutex and blocks on the condition variable.
SendCheck ==
  /\ senderPc = "check"
  /\ mutexOwner = "sender"
  /\ IF ReceiverReady
     THEN senderPc' = "unlock" /\ UNCHANGED mutexOwner
     ELSE senderPc' = "waiting" /\ mutexOwner' = "none"
  /\ UNCHANGED << componentVars, constructionVars, countVars, pollFd,
                  sendIteration, framesSent, receiveIteration, receiverPc,
                  framesPending, receiverData, receiverCall >>

\* A spurious wake-up of the wait.
SendSpuriousWake ==
  /\ senderPc = "waiting"
  /\ senderPc' = "reacquire"
  /\ UNCHANGED << componentVars, constructionVars, countVars, pollFd,
                  sendIteration, framesSent, receiveIteration, mutexOwner,
                  receiverPc, framesPending, receiverData, receiverCall >>

\* Fault variant of SendTimeout: an untimed wait, whose timeout never comes.
SendTimeoutNever ==
  /\ FALSE
  /\ UNCHANGED vars

\* SocketTimeout elapses while the sender is blocked.
SendTimeout ==
  /\ senderPc = "waiting"
  /\ senderPc' = "reacquire_timeout"
  /\ UNCHANGED << componentVars, constructionVars, countVars, pollFd,
                  sendIteration, framesSent, receiveIteration, mutexOwner,
                  receiverPc, framesPending, receiverData, receiverCall >>

\* The woken wait takes the mutex again and loops to the predicate.
SendReacquire ==
  /\ senderPc = "reacquire"
  /\ mutexOwner = "none"
  /\ mutexOwner' = "sender"
  /\ senderPc' = "check"
  /\ UNCHANGED << componentVars, constructionVars, countVars, pollFd,
                  sendIteration, framesSent, receiveIteration, receiverPc,
                  framesPending, receiverData, receiverCall >>

\* The timed-out wait takes the mutex again.
SendReacquireTimedOut ==
  /\ senderPc = "reacquire_timeout"
  /\ mutexOwner = "none"
  /\ mutexOwner' = "sender"
  /\ senderPc' = "final_check"
  /\ UNCHANGED << componentVars, constructionVars, countVars, pollFd,
                  sendIteration, framesSent, receiveIteration, receiverPc,
                  framesPending, receiverData, receiverCall >>

\* Fault variant of SendFinalCheck: a timeout fails the wait without looking at
\* the predicate again.
SendFinalCheckBlind ==
  /\ senderPc = "final_check"
  /\ mutexOwner = "sender"
  /\ senderPc' = "throw"
  /\ UNCHANGED << componentVars, constructionVars, countVars, pollFd,
                  sendIteration, framesSent, receiveIteration, mutexOwner,
                  receiverPc, framesPending, receiverData, receiverCall >>

\* After a timeout wait_for returns the predicate's value.
SendFinalCheck ==
  /\ senderPc = "final_check"
  /\ mutexOwner = "sender"
  /\ senderPc' = IF ReceiverReady THEN "unlock" ELSE "throw"
  /\ UNCHANGED << componentVars, constructionVars, countVars, pollFd,
                  sendIteration, framesSent, receiveIteration, mutexOwner,
                  receiverPc, framesPending, receiverData, receiverCall >>

\* throw std::runtime_error("Timed out waiting for receiver to be ready..."):
\* the lock is released by unwinding.
SendThrowDesync ==
  /\ senderPc = "throw"
  /\ mutexOwner = "sender"
  /\ mutexOwner' = "none"
  /\ senderPc' = "desync"
  /\ UNCHANGED << componentVars, constructionVars, countVars, pollFd,
                  sendIteration, framesSent, receiveIteration, receiverPc,
                  framesPending, receiverData, receiverCall >>

\* The end of the locked scope.
SendUnlock ==
  /\ senderPc = "unlock"
  /\ mutexOwner = "sender"
  /\ mutexOwner' = "none"
  /\ senderPc' = "transmit"
  /\ UNCHANGED << componentVars, constructionVars, countVars, pollFd,
                  sendIteration, framesSent, receiveIteration, receiverPc,
                  framesPending, receiverData, receiverCall >>

\* Send() not looking at what send() returned.
SendTransmitIgnoresFailure ==
  /\ senderPc = "transmit"
  /\ \/ /\ framesSent' = framesSent + 1
        /\ framesPending' = framesPending + 1
     \/ UNCHANGED << framesSent, framesPending >>
  /\ senderPc' = "increment"
  /\ UNCHANGED << componentVars, constructionVars, countVars, pollFd,
                  sendIteration, receiveIteration, mutexOwner, receiverPc,
                  receiverData, receiverCall >>

\* send(socketDescriptor, pData, packetSize, 0): the frame goes out and is
\* queued on the socket, or send() returns -1 and Send() throws.
SendTransmit ==
  /\ senderPc = "transmit"
  /\ \/ /\ framesSent' = framesSent + 1
        /\ framesPending' = framesPending + 1
        /\ senderPc' = "increment"
     \/ /\ senderPc' = "send_failed"
        /\ UNCHANGED << framesSent, framesPending >>
  /\ UNCHANGED << componentVars, constructionVars, countVars, pollFd,
                  sendIteration, receiveIteration, mutexOwner, receiverPc,
                  receiverData, receiverCall >>

\* Send() advancing the receiver's counter instead of its own.
SendIncrementReceiveIteration ==
  /\ senderPc = "increment"
  /\ receiveIteration' = receiveIteration + 1
  /\ senderPc' = "idle"
  /\ UNCHANGED << componentVars, constructionVars, countVars, pollFd,
                  framesSent, sendIteration,
                  mutexOwner, receiverPc, framesPending, receiverData,
                  receiverCall >>

\* ++sendIteration, and Send() returns.
SendIncrement ==
  /\ senderPc = "increment"
  /\ sendIteration' = sendIteration + 1
  /\ senderPc' = "idle"
  /\ UNCHANGED << componentVars, constructionVars, countVars, pollFd,
                  framesSent, receiveIteration, mutexOwner, receiverPc,
                  framesPending, receiverData, receiverCall >>

(***************************************************************************)
(* Receive(), one action per step of the receiver thread.                  *)
(***************************************************************************)
\* Receive() is entered and pollFds is set up: the function-local static
\* pollFd is initialised from socketDescriptor by the first call of Receive()
\* in the process, and pollFds[0] is a copy of it.
ReceiveBegin ==
  /\ receiverPc = "idle"
  /\ receiveIteration < MaxIter
  /\ receiverPc' = "lock"
  /\ receiveResult' = "none"
  /\ msgControl' = <<>>
  /\ recvmsgResult' = "none"
  /\ ready' = "none"
  /\ notified' = FALSE
  /\ entry' = EntryState
  /\ pollFd' = IF pollFd = Uninitialised THEN socketDescriptor ELSE pollFd
  /\ UNCHANGED << componentVars, constructionVars, countVars,
                  senderVars, receiveIteration, mutexOwner, framesPending,
                  receiverData >>

\* std::unique_lock lock(mutex)
ReceiveLock ==
  /\ receiverPc = "lock"
  /\ mutexOwner = "none"
  /\ mutexOwner' = "receiver"
  /\ receiverPc' = "increment"
  /\ UNCHANGED << componentVars, constructionVars, countVars, pollFd,
                  senderVars, receiveIteration, framesPending, receiverData,
                  receiverCall >>

\* ++receiveIteration
ReceiveIncrement ==
  /\ receiverPc = "increment"
  /\ mutexOwner = "receiver"
  /\ receiveIteration' = receiveIteration + 1
  /\ receiverPc' = "unlock"
  /\ UNCHANGED << componentVars, constructionVars, countVars, pollFd,
                  senderVars, mutexOwner, framesPending, receiverData,
                  receiverCall >>

\* Fault variant of ReceiveUnlock: Receive() goes on to poll() without
\* notifying the condition.
ReceiveUnlockNoNotify ==
  /\ receiverPc = "unlock"
  /\ mutexOwner = "receiver"
  /\ mutexOwner' = "none"
  /\ receiverPc' = "poll"
  /\ UNCHANGED << componentVars, constructionVars, countVars, pollFd,
                  senderVars, receiveIteration, framesPending, receiverData,
                  receiverCall >>

\* The end of the locked scope.
ReceiveUnlock ==
  /\ receiverPc = "unlock"
  /\ mutexOwner = "receiver"
  /\ mutexOwner' = "none"
  /\ receiverPc' = "notify"
  /\ UNCHANGED << componentVars, constructionVars, countVars, pollFd,
                  senderVars, receiveIteration, framesPending, receiverData,
                  receiverCall >>

\* condition.notify_all(): a sender blocked in the wait is woken.
ReceiveNotify ==
  /\ receiverPc = "notify"
  /\ notified' = TRUE
  /\ senderPc' = IF senderPc = "waiting" THEN "reacquire" ELSE senderPc
  /\ receiverPc' = "poll"
  /\ UNCHANGED << componentVars, constructionVars, countVars, pollFd,
                  sendIteration, framesSent, receiveIteration, mutexOwner,
                  framesPending, receiverData, receiveResult, msgControl,
                  recvmsgResult, ready, entry >>

\* Fault variant of ReceivePoll: the branch is `ready <= 0`, so a poll error
\* returns false like a timeout.
ReceivePollErrorReturns ==
  /\ receiverPc = "poll"
  /\ \/ /\ ready' = "error"
        /\ receiverPc' = "idle"
        /\ receiveResult' = "false"
     \/ /\ ready' = "timeout"
        /\ receiverPc' = "idle"
        /\ receiveResult' = "false"
     \/ /\ framesPending > 0
        /\ ready' = "ready"
        /\ receiverPc' = "recvmsg"
        /\ UNCHANGED receiveResult
  /\ UNCHANGED << componentVars, constructionVars, countVars, pollFd,
                  senderVars, receiveIteration, mutexOwner, framesPending,
                  receiverData, msgControl, recvmsgResult, notified, entry >>

\* poll(pollFds, numFds, timeoutMs) and the branch on its result: an error
\* throws, a timeout returns false, a readable socket goes on to recvmsg().
ReceivePoll ==
  /\ receiverPc = "poll"
  /\ \/ /\ ready' = "error"
        /\ receiverPc' = "failed"
        /\ receiveResult' = "thrown"
     \/ /\ ready' = "timeout"
        /\ receiverPc' = "idle"
        /\ receiveResult' = "false"
     \/ /\ framesPending > 0
        /\ ready' = "ready"
        /\ receiverPc' = "recvmsg"
        /\ UNCHANGED receiveResult
  /\ UNCHANGED << componentVars, constructionVars, countVars, pollFd,
                  senderVars, receiveIteration, mutexOwner, framesPending,
                  receiverData, msgControl, recvmsgResult, notified, entry >>

\* Fault variant of ReceiveRecvmsg: a failed recvmsg() throws.
ReceiveRecvmsgFatal ==
  /\ receiverPc = "recvmsg"
  /\ \/ /\ recvmsgResult' = "error"
        /\ receiverPc' = "failed"
        /\ receiveResult' = "thrown"
        /\ UNCHANGED << framesPending, msgControl >>
     \/ /\ framesPending > 0
        /\ recvmsgResult' = "frame"
        /\ framesPending' = framesPending - 1
        /\ \E control \in ControlChoices : msgControl' = control
        /\ receiverPc' = "process"
        /\ UNCHANGED receiveResult
  /\ UNCHANGED << componentVars, constructionVars, countVars, pollFd,
                  senderVars, receiveIteration, mutexOwner, receiverData,
                  ready, notified, entry >>

\* recvmsg(socketDescriptor, &msg, 0): it fails and Receive() returns false, or
\* it takes a frame off the socket and fills in the control messages.
ReceiveRecvmsg ==
  /\ receiverPc = "recvmsg"
  /\ \/ /\ recvmsgResult' = "error"
        /\ receiverPc' = "idle"
        /\ receiveResult' = "false"
        /\ UNCHANGED << framesPending, msgControl >>
     \/ /\ framesPending > 0
        /\ recvmsgResult' = "frame"
        /\ framesPending' = framesPending - 1
        /\ \E control \in ControlChoices : msgControl' = control
        /\ receiverPc' = "process"
        /\ UNCHANGED receiveResult
  /\ UNCHANGED << componentVars, constructionVars, countVars, pollFd,
                  senderVars, receiveIteration, mutexOwner, receiverData,
                  ready, notified, entry >>

\* recvmsg() where the clocks behind the timestamps may stand anywhere and
\* step any way between two frames.
ReceiveRecvmsgAnyClock ==
  /\ receiverPc = "recvmsg"
  /\ \/ /\ recvmsgResult' = "error"
        /\ receiverPc' = "idle"
        /\ receiveResult' = "false"
        /\ UNCHANGED << framesPending, msgControl >>
     \/ /\ framesPending > 0
        /\ recvmsgResult' = "frame"
        /\ framesPending' = framesPending - 1
        /\ \E control \in ClockStepChoices :
             /\ ParsedTimestamps(control).haveHardware
                  => stats.HardwareDeltaNanoseconds.count < MaxClockDeltas
             /\ ParsedTimestamps(control).haveSoftware
                  => stats.SoftwareDeltaNanoseconds.count < MaxClockDeltas
             /\ msgControl' = control
        /\ receiverPc' = "process"
        /\ UNCHANGED receiveResult
  /\ UNCHANGED << componentVars, constructionVars, countVars, pollFd,
                  senderVars, receiveIteration, mutexOwner,
                  receiverData, ready, notified, entry >>

\* The cmsg loop, the hardware block and the software block of Receive(), and
\* return true.
ProcessFrame ==
  /\ receiverPc = "process"
  /\ LET parsed == ParsedTimestamps(msgControl)
     IN  \E hw \in (IF parsed.haveHardware
                    THEN InterArrival(parsed.hardwareNanoseconds, prev.HaveHardware,
                           prev.HardwareNanoseconds, hardwareReport,
                           stats.HardwareDeltaNanoseconds, uploaded.hardware,
                           receiveIteration)
                    ELSE {[ report |-> hardwareReport,
                            upload |-> uploaded.hardware,
                            running |-> stats.HardwareDeltaNanoseconds,
                            prevNanoseconds |-> prev.HardwareNanoseconds,
                            have |-> prev.HaveHardware ]}),
            sw \in (IF parsed.haveSoftware
                    THEN InterArrival(parsed.softwareNanoseconds, prev.HaveSoftware,
                           prev.SoftwareNanoseconds, softwareReport,
                           stats.SoftwareDeltaNanoseconds, uploaded.software,
                           receiveIteration)
                    ELSE {[ report |-> softwareReport,
                            upload |-> uploaded.software,
                            running |-> stats.SoftwareDeltaNanoseconds,
                            prevNanoseconds |-> prev.SoftwareNanoseconds,
                            have |-> prev.HaveSoftware ]}) :
           /\ hardwareReport' = hw.report
           /\ softwareReport' = sw.report
           /\ stats' = [ HardwareDeltaNanoseconds |-> hw.running,
                         SoftwareDeltaNanoseconds |-> sw.running ]
           /\ prev' = [ HardwareNanoseconds |-> hw.prevNanoseconds,
                        SoftwareNanoseconds |-> sw.prevNanoseconds,
                        HaveHardware |-> hw.have, HaveSoftware |-> sw.have ]
           /\ uploaded' = [hardware |-> hw.upload, software |-> sw.upload]
           /\ lastSeen' =
                [ hardware |-> IF parsed.haveHardware
                               THEN Seen(parsed.hardwareNanoseconds)
                               ELSE lastSeen.hardware,
                  software |-> IF parsed.haveSoftware
                               THEN Seen(parsed.softwareNanoseconds)
                               ELSE lastSeen.software ]
           /\ scenario' =
                [ hardware |-> IF parsed.haveHardware
                               THEN Follow(scenario.hardware, parsed.hardwareNanoseconds)
                               ELSE scenario.hardware,
                  software |-> IF parsed.haveSoftware
                               THEN Follow(scenario.software, parsed.softwareNanoseconds)
                               ELSE scenario.software ]
  /\ receiverPc' = "idle"
  /\ receiveResult' = "true"
  /\ UNCHANGED << componentVars, constructionVars, pollFd,
                  senderVars, receiveIteration, mutexOwner, framesPending,
                  msgControl, recvmsgResult, ready, notified, entry >>

ReceiveProcess == ProcessFrame /\ UNCHANGED countVars

\* ReceiveProcess with the frames and negative deltas of each domain counted.
ReceiveProcessCounted ==
  /\ ProcessFrame
  /\ LET parsed == ParsedTimestamps(msgControl)
         one(flag) == IF flag THEN 1 ELSE 0
     IN  /\ timestamped' =
               [ hardware |-> timestamped.hardware + one(parsed.haveHardware),
                 software |-> timestamped.software + one(parsed.haveSoftware) ]
         /\ dropped' =
               [ hardware |-> dropped.hardware
                   + one(parsed.haveHardware /\ prev.HaveHardware
                         /\ parsed.hardwareNanoseconds < prev.HardwareNanoseconds),
                 software |-> dropped.software
                   + one(parsed.haveSoftware /\ prev.HaveSoftware
                         /\ parsed.softwareNanoseconds < prev.SoftwareNanoseconds) ]

SenderNext ==
  \/ SendBegin \/ SendLock \/ SendCheck \/ SendSpuriousWake \/ SendTimeout
  \/ SendReacquire \/ SendReacquireTimedOut \/ SendFinalCheck
  \/ SendThrowDesync \/ SendUnlock \/ SendTransmit \/ SendIncrement

ReceiverNext ==
  \/ ReceiveBegin \/ ReceiveLock \/ ReceiveIncrement \/ ReceiveUnlock
  \/ ReceiveNotify \/ ReceivePoll \/ ReceiveRecvmsg \/ ReceiveProcess

Next == SenderNext \/ ReceiverNext

Spec == Init /\ [][Next]_vars

\* The exchange on an interface whose clocks may step any way.
ClockNext ==
  \/ SenderNext
  \/ ReceiveBegin \/ ReceiveLock \/ ReceiveIncrement \/ ReceiveUnlock
  \/ ReceiveNotify \/ ReceivePoll \/ ReceiveRecvmsgAnyClock \/ ReceiveProcess

ClockSpec == Init /\ [][ClockNext]_vars

\* The exchange with the timestamped frames and the negative deltas counted.
CountNext ==
  \/ SenderNext
  \/ ReceiveBegin \/ ReceiveLock \/ ReceiveIncrement \/ ReceiveUnlock
  \/ ReceiveNotify \/ ReceivePoll \/ ReceiveRecvmsg \/ ReceiveProcessCounted

CountSpec == Init /\ [][CountNext]_vars

\* The scheduling the threads rely on: the sender thread keeps running, a
\* wait_for whose deadline has passed times out however often it is woken, and
\* the receiver thread does not stop inside its locked scope.
LiveSpec ==
  /\ Spec
  /\ WF_vars(SenderNext)
  /\ SF_vars(SendTimeout)
  /\ WF_vars(ReceiveIncrement)
  /\ WF_vars(ReceiveUnlock)

(***************************************************************************)
(* A TimerReport taken on its own: it is constructed and AddObservation is *)
(* called on it, as Receive() does, with indices that grow from call to    *)
(* call.                                                                   *)
(***************************************************************************)
\* The constructor arguments: target, bucket width, and whether an upload
\* location is given.
ReportArgs ==
  { [target |-> 0, bucketWidth |-> 1000, hasUpload |-> TRUE],
    [target |-> 0, bucketWidth |-> 10000, hasUpload |-> FALSE],
    [target |-> 5000, bucketWidth |-> 1000, hasUpload |-> TRUE] }

\* The observations fed: the ends of uint64_t, and values on both sides of
\* the bucket edges of the widths and targets above.
Observations ==
  { 0, 999, 1000, 3999, 5000, 7999, 15000, 45000, 100000, 1000000, UINT64_MAX }

ReportInit ==
  /\ ExchangeInit
  /\ \E args \in ReportArgs :
       timerReport = TimerReportInit(args.target, args.bucketWidth, args.hasUpload)
  /\ published = ReportDataInit
  /\ fed = <<>>
  /\ snapshot = ReportDataInit
  /\ storePending = {}
  /\ row = <<>>
  /\ history = {ReportDataInit}
  /\ EstimatorIdle
  /\ divisionByZero = "none"

\* One call timerReport.AddObservation(observation, index).
ReportAddObservation ==
  /\ Len(fed) < MaxFed
  /\ \E observation \in Observations :
       LET index == Len(fed) + 1
           added == AddObservation(timerReport, observation, index)
       IN  /\ timerReport' = added
           /\ published' = Publish(added, published)
           /\ fed' = Append(fed, <<observation, index>>)
  /\ UNCHANGED << exchangeVars, constructionVars, estimatorVars, divisionByZero,
                  snapshot, storePending, row, history >>

ReportSpec == ReportInit /\ [][ReportAddObservation]_vars

(***************************************************************************)
(* A TimerReport with a reader on its upload location: the receiver thread *)
(* calls AddObservation while the reporting thread prints a table row from *)
(* the ReportData at the upload location.  Neither takes a lock.           *)
(***************************************************************************)
\* The members of ReportData.
Members ==
  { "min", "max", "sum", "minIndex", "maxIndex", "observations", "median",
    "target", "bucketWidth", "buckets" }

\* The columns of the table CreateTableMaker(bucketWidth, false) builds:
\* Count, one per bucket, the maximum's distance to the target in
\* microseconds, and the maximum's index.
NumColumns == 1 + BucketCount + 2

\* a - b in uint64_t.
SubtractUint64(a, b) == IF a >= b THEN a - b ELSE ToUint64(a - b)

\* What column's ValueGetter returns for data.
ColumnValue(column, data) ==
  IF column = 1 THEN data.observations
  ELSE IF column <= 1 + BucketCount THEN data.buckets[column - 2]
  ELSE IF column = 2 + BucketCount
       THEN SubtractUint64(data.max, data.target) \div 1000
  ELSE ToUint64(data.maxIndex)

\* The observations the receiver feeds while the reader reads.
StoredObservations == {100, 600}

PublishInit ==
  /\ ExchangeInit
  /\ timerReport = TimerReportInit(HardwareReportArgs.target,
                     HardwareReportArgs.bucketWidth, TRUE)
  /\ published = ReportDataInit
  /\ fed = <<>>
  /\ snapshot = ReportDataInit
  /\ storePending = {}
  /\ row = <<>>
  /\ history = {ReportDataInit}
  /\ EstimatorIdle
  /\ divisionByZero = "none"

\* AddObservation up to `auto snapshot = Snapshot()`.
AddObservationSnapshot ==
  /\ storePending = {}
  /\ Len(fed) < MaxStored
  /\ \E observation \in StoredObservations :
       LET index == Len(fed) + 1
           added == AddObservation(timerReport, observation, index)
       IN  /\ timerReport' = added
           /\ snapshot' = Snapshot(added)
           /\ fed' = Append(fed, <<observation, index>>)
  /\ storePending' = Members
  /\ UNCHANGED << exchangeVars, constructionVars, estimatorVars, divisionByZero,
                  published, row, history >>

\* `*uploadLocation = snapshot`, one member at a time in the order the build
\* chose; with the last member the call returns.
AddObservationStore ==
  /\ \E member \in storePending :
       /\ published' = [published EXCEPT ![member] = snapshot[member]]
       /\ storePending' = storePending \ {member}
       /\ history' = IF storePending = {member}
                     THEN history \cup {snapshot}
                     ELSE history
  /\ UNCHANGED << exchangeVars, constructionVars, estimatorVars, divisionByZero,
                  timerReport, fed, snapshot, row >>

\* PrintRow's loop: the next column's value is read from the ReportData.
PrintValue ==
  /\ Len(row) < NumColumns
  /\ row' = Append(row, ColumnValue(Len(row) + 1, published))
  /\ UNCHANGED << exchangeVars, constructionVars, estimatorVars, divisionByZero,
                  timerReport, published, fed, snapshot,
                  storePending, history >>

\* PrintRow returns; the reporting thread will print the next row later.
PrintRowReturn ==
  /\ Len(row) = NumColumns
  /\ row' = <<>>
  /\ UNCHANGED << exchangeVars, constructionVars, estimatorVars, divisionByZero,
                  timerReport, published, fed, snapshot,
                  storePending, history >>

PublishNext ==
  \/ AddObservationSnapshot \/ AddObservationStore \/ PrintValue
  \/ PrintRowReturn

PublishSpec == PublishInit /\ [][PublishNext]_vars

(***************************************************************************)
(* A QuantileEstimator taken on its own: QuantileEstimator(0.50) is        *)
(* constructed and AddObservation is called with any observations.         *)
(***************************************************************************)
\* The observations fed: few enough values that the first five hold ties,
\* and later ones fall below, between, on and above the marker heights.
EstimatorObservations == {0, 1, 2, 3, 6}

EstimatorInit ==
  /\ ExchangeInit
  /\ ComponentsIdle

\* One call estimator.AddObservation(observation).
EstimatorAddObservation ==
  /\ Len(observed) < MaxObserved
  /\ \E observation \in EstimatorObservations :
       /\ estimator' = QuantileAddObservation(estimator, ToDouble(observation))
       /\ observed' = Append(observed, observation)
  /\ UNCHANGED << exchangeVars, constructionVars, divisionByZero, timerReport, published, fed,
                  snapshot, storePending, row, history >>

EstimatorSpec == EstimatorInit /\ [][EstimatorAddObservation]_vars

(***************************************************************************)
(* A TimerReport constructed with any TestParameters::BucketWidth, the     *)
(* default 0 included.                                                     *)
(***************************************************************************)
\* TestParameters::BucketWidth: its default and a width set by the user.
BucketWidths == {0, 250}

\* The report's target.
WidthTargets == {0, 5000}

\* The observations fed: on both sides of the target and of the bucket edges.
WidthObservations == {0, 249, 250, 5000, 6000, UINT64_MAX}

WidthInit ==
  /\ ExchangeInit
  /\ \E target \in WidthTargets, bucketWidth \in BucketWidths :
       timerReport = TimerReportInit(target, bucketWidth, TRUE)
  /\ published = ReportDataInit
  /\ fed = <<>>
  /\ snapshot = ReportDataInit
  /\ storePending = {}
  /\ row = <<>>
  /\ history = {ReportDataInit}
  /\ EstimatorIdle
  /\ divisionByZero = "none"

\* One call timerReport.AddObservation(observation, index), unless an
\* earlier call has ended the process.
WidthAddObservation ==
  /\ divisionByZero # "SIGFPE"
  /\ Len(fed) < MaxFed
  /\ \E observation \in WidthObservations :
       LET index == Len(fed) + 1
       IN  \E outcome \in AddObservationOutcomes(timerReport, observation, index) :
             /\ timerReport' = outcome.report
             /\ published' = IF outcome.trap THEN published
                             ELSE Publish(outcome.report, published)
             /\ divisionByZero' =
                  IF outcome.trap THEN "SIGFPE"
                  ELSE IF timerReport.bucketWidth = 0 THEN "continued"
                  ELSE divisionByZero
             /\ fed' = Append(fed, <<observation, index>>)
  /\ UNCHANGED << exchangeVars, constructionVars, estimatorVars, snapshot,
                  storePending, row, history >>

WidthSpec == WidthInit /\ [][WidthAddObservation]_vars

(***************************************************************************)
(* The constructor of EthercatNicTest, one action per system call, and the *)
(* exchange that follows it when it returns.  Each system call may succeed *)
(* or return -1.                                                           *)
(***************************************************************************)
\* A system call whose result the constructor checks: on -1 it throws
\* std::runtime_error, otherwise it goes on to the call `next`.
CheckedCall(step, next) ==
  /\ constructorPc = step
  /\ \E result \in {0, -1} :
       IF result = -1
       THEN constructorPc' = "threw" /\ failed' = failed \cup {step}
       ELSE constructorPc' = next /\ UNCHANGED failed
  /\ UNCHANGED << exchangeVars, componentVars, rxFilters, socketDescriptor,
                  openDescriptors, constructions >>

\* socketDescriptor = socket(PF_PACKET, SOCK_RAW, ...): -1 and the constructor
\* throws, or a descriptor the process does not have open (which one depends
\* on what else the process has open).
ConstructSocket ==
  /\ constructorPc = "socket"
  /\ \/ /\ socketDescriptor' = -1
        /\ constructorPc' = "threw"
        /\ failed' = failed \cup {"socket"}
        /\ UNCHANGED openDescriptors
     \/ \E descriptor \in Descriptors \ openDescriptors :
          /\ socketDescriptor' = descriptor
          /\ openDescriptors' = openDescriptors \cup {descriptor}
          /\ constructorPc' = "SO_RCVTIMEO"
          /\ UNCHANGED failed
  /\ UNCHANGED << exchangeVars, componentVars, rxFilters, constructions >>
ConstructReceiveTimeout == CheckedCall("SO_RCVTIMEO", "SO_SNDTIMEO")
ConstructSendTimeout == CheckedCall("SO_SNDTIMEO", "SO_DONTROUTE")
ConstructDontRoute == CheckedCall("SO_DONTROUTE", "SIOCSHWTSTAMP")

\* ioctl(socketDescriptor, SIOCSHWTSTAMP, &ifrts) with cfg.rx_filter =
\* HWTSTAMP_FILTER_ALL: the constructor does not look at what it returns.
ConstructHardwareTimestamping ==
  /\ constructorPc = "SIOCSHWTSTAMP"
  /\ rxFilters' = Append(rxFilters, "all")
  /\ \E result \in {0, -1} :
       failed' = IF result = -1 THEN failed \cup {"SIOCSHWTSTAMP"} ELSE failed
  /\ constructorPc' = "SO_TIMESTAMPING_NEW"
  /\ UNCHANGED << exchangeVars, componentVars, socketDescriptor,
                  openDescriptors, constructions >>

ConstructTimestamping == CheckedCall("SO_TIMESTAMPING_NEW", "SIOCGIFINDEX")
ConstructInterfaceIndex == CheckedCall("SIOCGIFINDEX", "SIOCGIFFLAGS")
ConstructGetFlags == CheckedCall("SIOCGIFFLAGS", "SIOCSIFFLAGS")
ConstructSetFlags == CheckedCall("SIOCSIFFLAGS", "bind")
ConstructBind == CheckedCall("bind", "constructed")

ConstructorNext ==
  \/ ConstructSocket \/ ConstructReceiveTimeout \/ ConstructSendTimeout
  \/ ConstructDontRoute \/ ConstructHardwareTimestamping
  \/ ConstructTimestamping \/ ConstructInterfaceIndex \/ ConstructGetFlags
  \/ ConstructSetFlags \/ ConstructBind

\* Send() and Receive() are called on an object whose constructor returned.
Exchange == constructorPc = "constructed" /\ Next

\* Neither thread is inside Send() or Receive().
Quiescent ==
  /\ senderPc \in {"idle", "desync", "send_failed"}
  /\ receiverPc \in {"idle", "failed"}

\* ~EthercatNicTest(): close(socketDescriptor); socketDescriptor = -1.
Destroy ==
  /\ constructorPc = "constructed"
  /\ Quiescent
  /\ openDescriptors' = openDescriptors \ {socketDescriptor}
  /\ socketDescriptor' = -1
  /\ constructorPc' = "destroyed"
  /\ UNCHANGED << exchangeVars, componentVars, failed, rxFilters, constructions >>

\* The member initialisers, run on a new object.
MembersReset ==
  /\ sendIteration' = 0
  /\ receiveIteration' = 0
  /\ mutexOwner' = "none"
  /\ senderPc' = "idle"
  /\ receiverPc' = "idle"
  /\ receiveResult' = "none"
  /\ framesSent' = 0
  /\ framesPending' = 0
  /\ msgControl' = <<>>
  /\ recvmsgResult' = "none"
  /\ prev' = PrevStatsInit
  /\ stats' = CadenceStatsInit
  /\ hardwareReport' = TimerReportInit(HardwareReportArgs.target,
                        HardwareReportArgs.bucketWidth, HardwareReportArgs.hasUpload)
  /\ softwareReport' = TimerReportInit(SoftwareReportArgs.target,
                        SoftwareReportArgs.bucketWidth, SoftwareReportArgs.hasUpload)
  /\ uploaded' = [hardware |-> ReportDataInit, software |-> ReportDataInit]
  /\ ready' = "none"
  /\ notified' = FALSE
  /\ lastSeen' = [hardware |-> NotSeen, software |-> NotSeen]
  /\ scenario' = [hardware |-> 0, software |-> 0]
  /\ entry' = EntryState'
  /\ timestamped' = [hardware |-> 0, software |-> 0]
  /\ dropped' = [hardware |-> 0, software |-> 0]

\* Another EthercatNicTest is constructed in the same process, after the one
\* before was destroyed or its constructor threw: the member initialisers
\* run again, the static pollFd of Receive() is the process's.
ConstructAnother ==
  /\ constructorPc \in {"destroyed", "threw"}
  /\ constructions < MaxInstances
  /\ MembersReset
  /\ constructorPc' = "socket"
  /\ constructions' = constructions + 1
  /\ failed' = {}
  /\ rxFilters' = <<>>
  /\ socketDescriptor' = -1
  /\ UNCHANGED << componentVars, openDescriptors, pollFd >>

ConstructInit ==
  /\ MembersInit
  /\ ComponentsIdle
  /\ constructorPc = "socket"
  /\ failed = {}
  /\ rxFilters = <<>>
  /\ socketDescriptor = -1
  /\ openDescriptors = {}
  /\ constructions = 1
  /\ pollFd = Uninitialised

ConstructNext == ConstructorNext \/ Exchange \/ Destroy \/ ConstructAnother

ConstructSpec == ConstructInit /\ [][ConstructNext]_vars

(***************************************************************************)
(* Properties of the rendezvous.                                           *)
(***************************************************************************)
\* C1: a frame is transmitted only in a state where receiveIteration >
\* sendIteration, so the sender never gets ahead of the receiver:
\* sendIteration <= receiveIteration (and no more frames are on the wire than
\* the receiver has started iterations) in every reachable state.
C1_SenderNeverAhead ==
  /\ senderPc \in {"unlock", "transmit"} => receiveIteration > sendIteration
  /\ sendIteration <= receiveIteration
  /\ framesSent <= receiveIteration

C1_Witness == senderPc = "transmit" /\ sendIteration = 1 /\ framesSent = 1

\* C2: sends and receives strictly alternate: the advances of receiveIteration
\* and the transmissions come in the order advance, transmit, advance,
\* transmit, ..., so the number of advances exceeds the number of transmitted
\* frames by 0 or 1 in every state.
C2_StrictAlternation == receiveIteration - framesSent \in {0, 1}

\* C3: exactly one iteration of slack: receiveIteration - sendIteration is 0
\* or 1 in every reachable state.
C3_OneIterationOfSlack == receiveIteration - sendIteration \in {0, 1}

\* C4: as long as Receive() has never been called, Send() transmits nothing and
\* leaves sendIteration unchanged, and a Send() call does not block forever: it
\* ends in the desync-timeout failure.
NeverReceived == receiverPc = "idle" /\ receiveResult = "none"
InSend == senderPc \notin {"idle", "desync", "send_failed"}

C4_SendWithoutReceiverTimesOut ==
  /\ [](NeverReceived =>
          /\ framesSent = 0
          /\ sendIteration = 0
          /\ senderPc \in {"idle", "lock", "check", "waiting", "reacquire",
                           "reacquire_timeout", "final_check", "throw", "desync"})
  /\ ((NeverReceived /\ InSend) ~> (senderPc = "desync" \/ ~NeverReceived))

C4_Witness == NeverReceived /\ senderPc = "desync"

\* C5: no lost wake-up: Send() fails with the desync timeout only while
\* receiveIteration has not advanced beyond sendIteration; once the receiver
\* has advanced, before or during the wait, the Send() call in the wait passes
\* it and goes on to transmit.
InWait ==
  senderPc \in {"check", "waiting", "reacquire", "reacquire_timeout", "final_check"}

C5_NoLostWakeup ==
  /\ [][(senderPc' \in {"throw", "desync"} /\ senderPc # "desync")
          => receiveIteration' <= sendIteration']_vars
  /\ ((InWait /\ receiveIteration > sendIteration) ~> (senderPc = "transmit"))

C5_Witness == senderPc = "final_check" /\ receiveIteration > sendIteration

\* C6: in every Receive() call the increment of receiveIteration and the
\* notification come before the socket is polled or read, on every path;
\* receiveIteration has advanced by exactly one when Receive() returns or fails.
ReceiveFinished == receiverPc = "failed" \/ (receiverPc = "idle" /\ receiveResult # "none")

C6_IncrementAndNotifyBeforePoll ==
  (\/ receiverPc \in {"poll", "recvmsg", "process"}
   \/ ready # "none"
   \/ recvmsgResult # "none"
   \/ ReceiveFinished)
    => /\ notified
       /\ receiveIteration = entry.receiveIteration + 1

C6_Witness == receiverPc = "idle" /\ receiveResult = "false" /\ recvmsgResult = "error"

(***************************************************************************)
(* Properties of Receive()'s error paths and of the inter-arrival deltas.  *)
(***************************************************************************)
\* The aggregators, the clock domains' state and the statistics are as they
\* were when the current (or last) Receive() was entered.
ReceiverDataUntouched ==
  /\ hardwareReport = entry.hardwareReport
  /\ softwareReport = entry.softwareReport
  /\ prev = entry.prev
  /\ stats = entry.stats
  /\ uploaded = entry.uploaded

\* C7: a poll timeout or a failed recvmsg() makes Receive() return false
\* without raising, with both aggregators and both clock domains' state as
\* before the call, and the next Receive() call can be made.
C7_TransientMissAbsorbed ==
  (ready = "timeout" \/ recvmsgResult = "error")
    => /\ receiverPc = "idle"
       /\ receiveResult = "false"
       /\ ReceiverDataUntouched
       /\ receiveIteration < MaxIter => ENABLED ReceiveBegin

C7_Witness ==
  /\ recvmsgResult = "error"
  /\ receiverPc = "idle"
  /\ hardwareReport.observations > 0
  /\ softwareReport.observations > 0

\* C8: a poll error makes Receive() raise: it does not return, calls no
\* recvmsg(), and leaves the aggregators and the clock domains' state alone.
C8_PollErrorFatal ==
  ready = "error"
    => /\ receiverPc = "failed"
       /\ receiveResult = "thrown"
       /\ recvmsgResult = "none"
       /\ ReceiverDataUntouched

C8_Witness == ready = "error" /\ hardwareReport.observations > 0

\* Receive() took a frame off the socket and has gone through its timestamps.
FrameProcessed == recvmsgResult = "frame" /\ receiverPc # "process"

\* What one clock domain's aggregator must look like after a Receive() that
\* returned true: presented says whether the frame carried the domain's
\* timestamp `current`, last is the domain's timestamp before this frame.
EmitsAsSpecified(presented, current, last, before, after) ==
  IF presented /\ last.seen /\ current >= last.nanoseconds
  THEN /\ after.observations = before.observations + 1
       /\ after.sum = before.sum + (current - last.nanoseconds)
  ELSE after = before

ScenarioEmits(progress, report) ==
  /\ progress = 1 => report.observations = 0
  /\ progress \in {2, 3} => report.observations = 1 /\ report.sum = 500
  /\ progress = 4 => /\ report.observations = 2 /\ report.sum = 1000
                     /\ report.min = 500 /\ report.max = 500

\* C9: per clock domain, the first timestamp emits no observation and every
\* later one emits current - previous exactly when current >= previous, where
\* previous is the domain's immediately preceding timestamp; the timestamps
\* T, T+500, T+300, T+800 emit nothing, 500, nothing, 500.
C9_DeltaTracker ==
  /\ FrameProcessed =>
       LET parsed == ParsedTimestamps(msgControl)
       IN  /\ receiveResult = "true"
           /\ EmitsAsSpecified(parsed.haveHardware, parsed.hardwareNanoseconds,
                entry.lastSeen.hardware, entry.hardwareReport, hardwareReport)
           /\ EmitsAsSpecified(parsed.haveSoftware, parsed.softwareNanoseconds,
                entry.lastSeen.software, entry.softwareReport, softwareReport)
  /\ ScenarioEmits(scenario.hardware, hardwareReport)
  /\ ScenarioEmits(scenario.software, softwareReport)

C9_Witness == scenario.hardware = 4 /\ softwareReport.observations > 0

\* C10: a negative inter-arrival delta adds no observation and raises no
\* error, yet the domain's previous timestamp becomes the current one: after
\* every Receive() whose frame carried a timestamp for a domain, that domain's
\* previous timestamp is that timestamp.
C10_ClockAnomaly ==
  FrameProcessed =>
    LET parsed == ParsedTimestamps(msgControl)
    IN  /\ receiverPc = "idle" /\ receiveResult = "true"
        /\ parsed.haveHardware =>
             /\ prev.HaveHardware
             /\ prev.HardwareNanoseconds = parsed.hardwareNanoseconds
             /\ (entry.prev.HaveHardware
                 /\ parsed.hardwareNanoseconds < entry.prev.HardwareNanoseconds)
                  => /\ hardwareReport = entry.hardwareReport
                     /\ uploaded.hardware = entry.uploaded.hardware
        /\ parsed.haveSoftware =>
             /\ prev.HaveSoftware
             /\ prev.SoftwareNanoseconds = parsed.softwareNanoseconds
             /\ (entry.prev.HaveSoftware
                 /\ parsed.softwareNanoseconds < entry.prev.SoftwareNanoseconds)
                  => /\ softwareReport = entry.softwareReport
                     /\ uploaded.software = entry.uploaded.software

C10_Witness ==
  /\ FrameProcessed
  /\ LET parsed == ParsedTimestamps(msgControl)
     IN  /\ parsed.haveHardware /\ entry.prev.HaveHardware
         /\ parsed.hardwareNanoseconds < entry.prev.HardwareNanoseconds
         /\ parsed.haveSoftware /\ entry.prev.HaveSoftware
         /\ parsed.softwareNanoseconds > entry.prev.SoftwareNanoseconds
         /\ prev.HardwareNanoseconds = parsed.hardwareNanoseconds

(***************************************************************************)
(* Properties of the nanosecond arithmetic.                                *)
(***************************************************************************)
\* x brought into the range of int64_t.
Saturated(x) ==
  IF x > INT64_MAX THEN INT64_MAX ELSE IF x < INT64_MIN THEN INT64_MIN ELSE x

\* The timespec a control buffer carries for one clock domain (slot 1 is the
\* software clock, slot 3 the hardware clock).
CarriedTimespec(control, slot) == control[Len(control)].ts[slot]

\* What a domain's aggregator must hold after a frame that carried the
\* timestamp `current` when the domain's previous timestamp was `last`, if
\* the delta is current - last or its saturation.
EmitsUnwrapped(hadLast, current, last, before, after, iteration) ==
  LET delta == Saturated(current - last)
  IN  IF hadLast /\ delta >= 0
      THEN after = AddObservation(before, delta, StaticCastInt(iteration))
      ELSE after = before

\* C11: nanosecond arithmetic never wraps: every timestamp (tv_sec, tv_nsec)
\* becomes tv_sec * 10^9 + tv_nsec saturated to the int64_t range, and for
\* every previous and current nanosecond value, saturated and negative ones
\* included, the inter-arrival delta is current - previous or its saturation:
\* an observation is emitted exactly when that difference is >= 0, with that
\* value.
C11_NanosecondsNeverWrap ==
  FrameProcessed =>
    LET parsed == ParsedTimestamps(msgControl)
        hardware == CarriedTimespec(msgControl, 3)
        software == CarriedTimespec(msgControl, 1)
    IN  /\ parsed.haveHardware =>
             /\ prev.HardwareNanoseconds =
                  Saturated(hardware.tv_sec * NanoPerSec + hardware.tv_nsec)
             /\ EmitsUnwrapped(entry.prev.HaveHardware, prev.HardwareNanoseconds,
                  entry.prev.HardwareNanoseconds, entry.hardwareReport,
                  hardwareReport, receiveIteration)
        /\ parsed.haveSoftware =>
             /\ prev.SoftwareNanoseconds =
                  Saturated(software.tv_sec * NanoPerSec + software.tv_nsec)
             /\ EmitsUnwrapped(entry.prev.HaveSoftware, prev.SoftwareNanoseconds,
                  entry.prev.SoftwareNanoseconds, entry.softwareReport,
                  softwareReport, receiveIteration)

(***************************************************************************)
(* Properties of TimerReport.                                              *)
(***************************************************************************)
\* The calls made so far, the values they passed and the indices.
Calls == 1 .. Len(fed)
FedValue(i) == fed[i][1]
FedIndex(i) == fed[i][2]
FedValues == [i \in Calls |-> FedValue(i)]

SumBuckets(buckets) ==
  buckets[0] + buckets[1] + buckets[2] + buckets[3] + buckets[4]

\* C12: with a bucket width >= 1 and any target, after every AddObservation
\* call the five histogram buckets sum to the observation count.
C12_BucketsSumToCount ==
  timerReport.bucketWidth >= 1 =>
    /\ SumBuckets(timerReport.buckets) = timerReport.observations
    /\ timerReport.hasUpload =>
         SumBuckets(published.buckets) = published.observations

C12_Witness ==
  /\ timerReport.target > 0
  /\ timerReport.observations = 3
  /\ timerReport.buckets[0] = 2
  /\ timerReport.buckets[4] = 1

\* C13: once an observation was fed, min <= v <= max for every value v fed so
\* far, and min and max are each one of the values fed.
C13_MinMaxBracket ==
  fed # <<>> =>
    /\ \A i \in Calls : timerReport.min <= FedValue(i) /\ FedValue(i) <= timerReport.max
    /\ \E i \in Calls : timerReport.min = FedValue(i)
    /\ \E i \in Calls : timerReport.max = FedValue(i)

C13_Witness ==
  /\ Len(fed) = 3
  /\ timerReport.min = FedValue(2)
  /\ timerReport.max = FedValue(3)
  /\ FedValue(1) > timerReport.min /\ FedValue(1) < timerReport.max

\* The index passed with the earliest call whose value is v.
EarliestIndex(v) ==
  FedIndex(CHOOSE i \in Calls :
             FedValue(i) = v /\ \A j \in Calls : j < i => FedValue(j) # v)

\* C14: minIndex (maxIndex) is the index passed with the earliest call whose
\* value equals the current minimum (maximum); a later observation tying the
\* extreme does not change it.
C14_IndexOfFirstExtreme ==
  fed # <<>> =>
    /\ timerReport.minIndex = EarliestIndex(timerReport.min)
    /\ timerReport.maxIndex = EarliestIndex(timerReport.max)

\* value - target where the value is at or above the target, else 0.
Difference(value, target) == IF value >= target THEN value - target ELSE 0

\* The bucket of a difference d for the bucket width w: [0,w), [w,2w),
\* [2w,4w), [4w,8w), and everything from 8w on.
BucketOfRange(d, w) ==
  IF d < w THEN 0
  ELSE IF d < 2 * w THEN 1
  ELSE IF d < 4 * w THEN 2
  ELSE IF d < 8 * w THEN 3
  ELSE 4

\* The buckets listed for the bucket width 1000.
BucketExamples == { <<0, 0>>, <<999, 0>>, <<1000, 1>>, <<3999, 2>>,
                    <<7999, 3>>, <<100000, 4>> }

\* C15: for every difference d >= 0 and bucket width w >= 1 the bucket
\* incremented is min(bit_width(d div w), 4), which is bucket 0 for d in
\* [0,w), 1 for [w,2w), 2 for [2w,4w), 3 for [4w,8w) and 4 from 8w on; with
\* w = 1000: 0 and 999 in bucket 0, 1000 in 1, 3999 in 2, 7999 in 3, 100000
\* in 4.
C15_ExponentialBuckets ==
  /\ \A b \in 0 .. (BucketCount - 1) :
       timerReport.buckets[b] =
         Cardinality({ i \in Calls :
           BucketOfRange(Difference(FedValue(i), timerReport.target),
                         timerReport.bucketWidth) = b })
  /\ \A example \in BucketExamples :
       (/\ timerReport.bucketWidth = 1000
        /\ timerReport.target = 0
        /\ FedValues = << example[1] >>)
         => timerReport.buckets[example[2]] = 1

C15_Witness ==
  /\ timerReport.bucketWidth = 1000
  /\ timerReport.target = 0
  /\ FedValues = <<3999, 7999, 999, 100000>>

\* The end-to-end scenario: bucket width 10,000 ns, target 0, and the
\* observations 5,000, 15,000, 45,000, 1,000,000 fed in that order.
ScenarioFed ==
  /\ timerReport.bucketWidth = 10000
  /\ timerReport.target = 0
  /\ FedValues = <<5000, 15000, 45000, 1000000>>

BucketCounts(b0, b1, b2, b3, b4) ==
  [b \in 0 .. (BucketCount - 1) |->
     CASE b = 0 -> b0 [] b = 1 -> b1 [] b = 2 -> b2 [] b = 3 -> b3 [] OTHER -> b4]

\* C16 as stated: the end-to-end scenario ends with the bucket counts
\* [1,1,1,1,0].
C16_ScenarioBucketsAsStated ==
  ScenarioFed => timerReport.buckets = BucketCounts(1, 1, 1, 1, 0)

\* C16, amended: the end-to-end scenario ends with the bucket counts
\* [1,1,0,1,1]: 45,000 is 4 bucket widths and goes to bucket 3 ([4w,8w)),
\* 1,000,000 is 100 bucket widths and goes to the last bucket.
C16_ScenarioBuckets ==
  ScenarioFed => timerReport.buckets = BucketCounts(1, 1, 0, 1, 1)

C16_Witness == ScenarioFed /\ timerReport.buckets[3] = 1

\* The sum of the first n values fed, or -1 when it does not fit uint64_t.
RECURSIVE SumFed(_)
SumFed(n) ==
  IF n = 0 THEN 0
  ELSE LET before == SumFed(n - 1)
       IN  IF before = -1 \/ FedValue(n) > UINT64_MAX - before
           THEN -1
           ELSE before + FedValue(n)

\* C17: the observation count is the number of AddObservation calls and sum
\* is the arithmetic sum of the values fed, while that sum fits uint64_t; the
\* end-to-end scenario gives count = 4 and sum = 1,065,000.
C17_CountAndSum ==
  /\ timerReport.observations = Len(fed)
  /\ SumFed(Len(fed)) # -1 => timerReport.sum = SumFed(Len(fed))
  /\ ScenarioFed => timerReport.observations = 4 /\ timerReport.sum = 1065000

C17_Witness == ScenarioFed /\ timerReport.sum = 1065000

\* C18: the bucketed difference is never negative: it is value - target for
\* a value at or above the target and 0 otherwise, so every observation below
\* the target is counted in bucket 0 and none of them wraps around into the
\* last bucket.
C18_DifferenceNeverNegative ==
  /\ timerReport.buckets[0] =
       Cardinality({ i \in Calls :
         Difference(FedValue(i), timerReport.target) < timerReport.bucketWidth })
  /\ timerReport.buckets[BucketCount - 1] =
       Cardinality({ i \in Calls :
         /\ FedValue(i) >= timerReport.target
         /\ FedValue(i) - timerReport.target >= 8 * timerReport.bucketWidth })

C18_Witness ==
  /\ timerReport.target = 5000
  /\ FedValues = <<0, UINT64_MAX, 999>>
  /\ timerReport.buckets[0] = 2

\* C19: with an upload location, after every AddObservation call the location
\* holds the aggregator's state after that call: min, max, sum, minIndex,
\* maxIndex, count, current quantile, target, bucket width and the five
\* buckets; without one, AddObservation writes nothing outside the aggregator.
C19_PublishesFullState ==
  /\ (timerReport.hasUpload /\ fed # <<>>) =>
       /\ published.min = timerReport.min
       /\ published.max = timerReport.max
       /\ published.sum = timerReport.sum
       /\ published.minIndex = timerReport.minIndex
       /\ published.maxIndex = timerReport.maxIndex
       /\ published.observations = timerReport.observations
       /\ published.median = timerReport.median.markerHeights[2]
       /\ published.target = timerReport.target
       /\ published.bucketWidth = timerReport.bucketWidth
       /\ published.buckets = timerReport.buckets
  /\ ~timerReport.hasUpload => published = ReportDataInit

C19_Witness ==
  /\ timerReport.hasUpload
  /\ published.observations = 3
  /\ published.minIndex = 2
  /\ published.maxIndex = 3
  /\ published.buckets[0] = 2

\* The states a reader may be shown: the ReportData after a completed
\* AddObservation call, the initial one, or the one being stored.
PublishedStates == history \cup {snapshot}

\* C20: no torn reads: a row the reporting thread read from the upload
\* location while the receiver thread executes AddObservation shows the
\* aggregator's state after one AddObservation call (or the initial state),
\* never a mixture of two states.
C20_NoTornReads ==
  Len(row) = NumColumns =>
    \E data \in PublishedStates :
      \A column \in 1 .. NumColumns : row[column] = ColumnValue(column, data)


(***************************************************************************)
(* Properties of the QuantileEstimator.                                    *)
(***************************************************************************)
\* The heights of markers index and index + 1 are in ascending order.
Ascending(index) ==
  RatLeq(estimator.markerHeights[index], estimator.markerHeights[index + 1])

\* C21, as stated: after every call of AddObservation, the first four
\* included, the marker heights are sorted ascending.
C21_SortedAfterEveryCall == \A index \in 0 .. 3 : Ascending(index)

\* C21: the marker heights are sorted ascending after every call of
\* AddObservation from the fifth on; after each of the first four calls they
\* hold the observations made so far in arrival order, followed by zeros.
C21_SortedFromTheFifthCall ==
  IF Len(observed) >= NUM_MARKERS
  THEN \A index \in 0 .. 3 : Ascending(index)
  ELSE \A index \in Markers :
         estimator.markerHeights[index] =
           IF index < Len(observed) THEN ToDouble(observed[index + 1])
           ELSE ToDouble(0)

\* The fifth call has just sorted observations that arrived out of order.
C21_Witness ==
  /\ Len(observed) = NUM_MARKERS
  /\ observed[1] > observed[2]
  /\ observed[4] < observed[5]
  /\ \A index \in 0 .. 3 : Ascending(index)

\* C22: from the fifth observation on, after every call of AddObservation
\* every interior marker height lies in the closed interval of its two
\* neighbours' heights, so the heights are non-decreasing across 0..4.
C22_InteriorBetweenNeighbours ==
  Len(observed) >= NUM_MARKERS =>
    \A index \in 1 .. 3 :
      /\ RatLeq(estimator.markerHeights[index - 1], estimator.markerHeights[index])
      /\ RatLeq(estimator.markerHeights[index], estimator.markerHeights[index + 1])

\* The sixth observation has replaced height[0], and an interior height is
\* no longer one of the integers observed: it was interpolated.
C22_Witness ==
  /\ Len(observed) > NUM_MARKERS
  /\ \A k \in 1 .. NUM_MARKERS : observed[6] < observed[k]
  /\ estimator.markerHeights[0] = ToDouble(observed[6])
  /\ \E index \in 1 .. 3 : estimator.markerHeights[index][2] > 1

\* C23: in every state a sequence of AddObservation calls reaches, the marker
\* positions strictly increase from marker 0 to marker 4.
C23_PositionsStrictlyIncrease ==
  \A index \in 0 .. 3 :
    estimator.markerPositions[index] < estimator.markerPositions[index + 1]

\* Markers have moved, and one of them sits right next to its right
\* neighbour, where one more step would make the two positions equal.
C23_Witness ==
  /\ Len(observed) > NUM_MARKERS
  /\ \E index \in 1 .. 3 :
       /\ estimator.markerPositions[index] > index
       /\ estimator.markerPositions[index + 1]
            = estimator.markerPositions[index] + 1

\* C24: no call of AddObservation leaves a marker at a smaller position than
\* the marker had before the call.
C24_PositionsOnlyIncrease ==
  [][\A index \in Markers :
       estimator'.markerPositions[index] >= estimator.markerPositions[index]]_vars

\* The sixth and seventh observation were both below every height, which
\* moved marker 1 from position 1 to 3, and the seventh call took it one back.
C24_Witness ==
  /\ Len(observed) = 7
  /\ \A k \in 1 .. NUM_MARKERS : observed[6] < observed[k]
  /\ observed[7] < observed[6]
  /\ estimator.markerPositions[1] = 2

\* C25: with fewer than five observations made, GetQuantile() returns 0.
C25_UndefinedQuantileIsZero ==
  Len(observed) < NUM_MARKERS => GetQuantile(estimator) = ToDouble(0)


(***************************************************************************)
(* Properties of the construction.                                         *)
(***************************************************************************)
\* No call of Send() or Receive() has been made.
NeverCalled ==
  /\ senderPc = "idle" /\ receiverPc = "idle"
  /\ sendIteration = 0 /\ receiveIteration = 0

\* C26: a configuration step that fails, enabling hardware timestamping
\* included, is fatal: the constructor of an exchange one of whose steps
\* failed never returns normally, and Send() and Receive() run only on an
\* exchange whose constructor returned.
C26_SetupFailureIsFatal ==
  /\ failed # {} => constructorPc # "constructed"
  /\ constructorPc # "constructed" => NeverCalled

\* C27: once the interface has rejected hardware timestamping with the
\* receive filter "all" and the constructor has gone on, the constructor has
\* made a second request with the PTP-only receive filter.
C27_PtpFallback ==
  ("SIOCSHWTSTAMP" \in failed /\ constructorPc # "SIOCSHWTSTAMP") =>
    (Len(rxFilters) >= 2 /\ rxFilters[2] = "ptp")


(***************************************************************************)
(* Properties of the ownership of the exchange's state.                    *)
(***************************************************************************)
\* C28: no step of Send(), whether the call goes on to transmit, times out
\* or fails to transmit, changes an aggregator, what it published, the
\* previous-timestamp state or receiveIteration.
C28_SendLeavesReceiverState ==
  [][SenderNext =>
       UNCHANGED << hardwareReport, softwareReport, uploaded, prev, stats,
                    receiveIteration >>]_vars

\* A Send() has timed out after earlier calls transmitted, with both clock
\* domains' state and an aggregator filled by Receive().
C28_Witness ==
  /\ senderPc = "desync"
  /\ framesSent > 0
  /\ prev.HaveHardware /\ prev.HaveSoftware
  /\ hardwareReport.observations > 0

\* C29: a thread that is at its statement incrementing sendIteration or
\* receiveIteration holds the mutex; the sender writes no counter outside it.
C29_CountersWrittenUnderMutex ==
  /\ senderPc = "increment" => mutexOwner = "sender"
  /\ receiverPc = "increment" => mutexOwner = "receiver"

\* The frame the current (or last) Receive() read carries a timestamp in
\* slot `slot` of a timestamp control message.
CarriesTimestamp(slot) ==
  \E i \in DOMAIN msgControl :
    msgControl[i].timestamping /\ NonZero(msgControl[i].ts[slot])

\* C30: a frame without a hardware timestamp leaves the hardware domain's
\* previous timestamp, have-flag and aggregator as they were, a frame without
\* a software timestamp the software domain's; a frame with neither changes
\* nothing of either, and Receive() still returns true.
C30_ClockDomainsIndependent ==
  FrameProcessed =>
    /\ receiveResult = "true"
    /\ ~CarriesTimestamp(3) =>
         /\ prev.HardwareNanoseconds = entry.prev.HardwareNanoseconds
         /\ prev.HaveHardware = entry.prev.HaveHardware
         /\ hardwareReport = entry.hardwareReport
         /\ uploaded.hardware = entry.uploaded.hardware
         /\ stats.HardwareDeltaNanoseconds = entry.stats.HardwareDeltaNanoseconds
    /\ ~CarriesTimestamp(1) =>
         /\ prev.SoftwareNanoseconds = entry.prev.SoftwareNanoseconds
         /\ prev.HaveSoftware = entry.prev.HaveSoftware
         /\ softwareReport = entry.softwareReport
         /\ uploaded.software = entry.uploaded.software
         /\ stats.SoftwareDeltaNanoseconds = entry.stats.SoftwareDeltaNanoseconds

\* A frame with only a software timestamp has been processed when both
\* domains had a previous timestamp: the software aggregator took a delta.
C30_Witness ==
  /\ FrameProcessed
  /\ CarriesTimestamp(1) /\ ~CarriesTimestamp(3)
  /\ entry.prev.HaveHardware /\ entry.prev.HardwareNanoseconds # 0
  /\ softwareReport # entry.softwareReport


(***************************************************************************)
(* Properties of the counters.                                             *)
(***************************************************************************)
\* C31: sendIteration is the number of frames Send() has transmitted: between
\* calls, and after a call that raised on a desync timeout or a failed
\* transmit, the two are equal; inside a call they differ only between the
\* transmit that succeeded and the increment that follows it.
C31_SendIterationCountsTransmits ==
  IF senderPc = "increment"
  THEN sendIteration + 1 = framesSent
  ELSE sendIteration = framesSent

\* A transmit has failed after earlier calls transmitted.
C31_Witness == senderPc = "send_failed" /\ framesSent > 1


(***************************************************************************)
(* Properties of the QuantileEstimator's start and of its outer markers.   *)
(***************************************************************************)
\* How many of the observations made equal value, and how many heights do.
TimesObserved(value) ==
  Cardinality({k \in DOMAIN observed : observed[k] = value})

TimesHeight(value) ==
  Cardinality({index \in Markers :
                 estimator.markerHeights[index] = ToDouble(value)})

\* C32: through the first five calls of AddObservation the marker positions
\* and the desired positions stay 0,1,2,3,4, and after exactly five calls the
\* marker heights are the five observations in ascending order.
C32_FirstFiveObservations ==
  /\ Len(observed) <= NUM_MARKERS =>
       /\ estimator.markerPositions = [index \in Markers |-> index]
       /\ estimator.desiredMarkerPositions = [index \in Markers |-> ToDouble(index)]
  /\ Len(observed) = NUM_MARKERS =>
       /\ \A index \in 0 .. 3 : Ascending(index)
       /\ \A value \in EstimatorObservations :
            TimesHeight(value) = TimesObserved(value)

\* Five observations with a tie, the largest first, have been made.
C32_Witness ==
  /\ Len(observed) = NUM_MARKERS
  /\ observed[1] > observed[2]
  /\ observed[2] = observed[3]
  /\ estimator.markerHeights[4] = ToDouble(observed[1])

\* The smallest and the largest observation made.
SmallestObserved ==
  CHOOSE value \in EstimatorObservations :
    /\ \E k \in DOMAIN observed : observed[k] = value
    /\ \A k \in DOMAIN observed : value <= observed[k]

LargestObserved ==
  CHOOSE value \in EstimatorObservations :
    /\ \E k \in DOMAIN observed : observed[k] = value
    /\ \A k \in DOMAIN observed : value >= observed[k]

\* C33: once five or more observations were made, markerHeights[0] is the
\* smallest and markerHeights[4] the largest of them all, marker 0 is at
\* position 0 and marker 4 at position n - 1, n the number of observations.
C33_OuterMarkers ==
  Len(observed) >= NUM_MARKERS =>
    /\ estimator.markerHeights[0] = ToDouble(SmallestObserved)
    /\ estimator.markerHeights[4] = ToDouble(LargestObserved)
    /\ estimator.markerPositions[0] = 0
    /\ estimator.markerPositions[4] = Len(observed) - 1

\* Observations after the fifth have replaced both outer heights.
C33_Witness ==
  /\ Len(observed) > NUM_MARKERS + 1
  /\ \A k \in 1 .. NUM_MARKERS :
       SmallestObserved < observed[k] /\ observed[k] < LargestObserved


\* What C34 says of one clock domain: frames is the number of Receive()
\* calls that returned true with the domain's timestamp, negative the number
\* of negative deltas among them.
CountBounded(report, before, frames, negative) ==
  /\ report.observations <= (IF frames = 0 THEN 0 ELSE frames - 1)
  /\ (report.observations = (IF frames = 0 THEN 0 ELSE frames - 1)) <=> (negative = 0)
  /\ report.observations - before.observations \in {0, 1}

\* C34: a domain's aggregator holds at most max(0, k - 1) observations, k
\* the number of Receive() calls so far that returned true with the domain's
\* timestamp, exactly that many when no delta was negative; a Receive() call
\* adds at most one observation per domain.
C34_ObservationsBoundedByFrames ==
  /\ CountBounded(hardwareReport, entry.hardwareReport,
                  timestamped.hardware, dropped.hardware)
  /\ CountBounded(softwareReport, entry.softwareReport,
                  timestamped.software, dropped.software)

\* Three frames carried a hardware timestamp, one of them stepping back, and
\* the software domain took all its deltas.
C34_Witness ==
  /\ timestamped.hardware = 3 /\ dropped.hardware = 1
  /\ hardwareReport.observations = 1
  /\ timestamped.software = 3 /\ softwareReport.observations = 2


(***************************************************************************)
(* Properties of the socket descriptor.                                    *)
(***************************************************************************)
\* C35: a Receive() call polls the descriptor of the exchange it is called
\* on: inside a call the pollfd copied into pollFds holds this exchange's
\* socketDescriptor, also on an exchange constructed after an earlier one.
C35_PollsOwnDescriptor ==
  (constructorPc = "constructed" /\ receiverPc # "idle")
    => pollFd = socketDescriptor

\* C36: once the exchange was torn down or its constructor has failed, no
\* descriptor of an exchange is open.
C36_SocketReleased ==
  constructorPc \in {"destroyed", "threw"} => openDescriptors = {}


(***************************************************************************)
(* Properties of the bucket index for any bucket width.                    *)
(***************************************************************************)
\* C37: for every observation, target and bucket width, the default width 0
\* included, AddObservation divides by no zero and increments exactly one of
\* the buckets 0..4: no call has met a division by zero, and the buckets sum
\* to the number of calls made.
C37_BucketIndexDefined ==
  /\ divisionByZero = "none"
  /\ SumBuckets(timerReport.buckets) = Len(fed)

=============================================================================
